---- MODULE Spec2Model ----
(***************************************************************************)
(* Ledger and credit-card billing-cycle engine of sistema_financeiro.py    *)
(* (class GerenciadorContas and the entities it manages).                  *)
(*                                                                         *)
(* Money is counted in whole centavos.  Asset quantities and average       *)
(* prices are exact rationals [n, d].  A description (str) is a sequence   *)
(* of words; "x in descricao" is "x is a contiguous run of words".         *)
(* str(uuid4()) is a fresh number taken from prox_id.                      *)
(***************************************************************************)
EXTENDS Integers, Sequences, FiniteSets, TLC

VARIABLES
    contas,            \* GerenciadorContas.contas
    transacoes,        \* GerenciadorContas.transacoes
    cartoes_credito,   \* GerenciadorContas.cartoes_credito
    compras_cartao,    \* GerenciadorContas.compras_cartao
    faturas,           \* GerenciadorContas.faturas
    categorias,        \* GerenciadorContas.categorias
    tags,              \* GerenciadorContas.tags
    arquivo,           \* the JSON file at caminho_arquivo
    prox_id,           \* source of the next uuid4
    ult,               \* the last call: [op, args, ok, ret, exc]
    ante,              \* the manager's state before the last call
    ult2,              \* the call before the last
    ante2,             \* the manager's state before that call
    det_compra,        \* history: entry id -> what comprar_ativo bought
    passos,            \* number of calls made
    em_curso           \* per thread, the call it is in and how far it got

vars == <<contas, transacoes, cartoes_credito, compras_cartao, faturas, categorias,
          tags, arquivo, prox_id, ult, ante, ult2, ante2, det_compra, passos,
          em_curso>>

-----------------------------------------------------------------------------
(* Bounds of the exploration *)

MaxPassos == 3

-----------------------------------------------------------------------------
(* Sequences as Python lists *)

Range(s) == {s[i] : i \in DOMAIN s}

\* next((x for x in xs if P(x)), None) as an index, 0 when there is none;
\* s[i] tells whether P holds of the i-th element
PrimeiroIndice(s) ==
    IF \E i \in DOMAIN s : s[i]
    THEN CHOOSE i \in DOMAIN s : s[i] /\ \A j \in 1..(i - 1) : ~s[j]
    ELSE 0

\* sum(x for x in s) over a list of numbers
RECURSIVE Soma(_)
Soma(s) == IF s = <<>> THEN 0 ELSE Head(s) + Soma(Tail(s))

-----------------------------------------------------------------------------
(* float arithmetic on quantities and average prices: exact rationals *)

Abs(x) == IF x < 0 THEN -x ELSE x

RECURSIVE MDC(_, _)
MDC(a, b) == IF b = 0 THEN a ELSE MDC(b, a % b)

Rat(n, d) ==
    LET s == IF d < 0 THEN -1 ELSE 1
        g == MDC(Abs(n), Abs(d))
    IN  [n |-> (s * n) \div g, d |-> (s * d) \div g]

RInt(i) == [n |-> i, d |-> 1]
RAdd(a, b) == Rat(a.n * b.d + b.n * a.d, a.d * b.d)
RSub(a, b) == Rat(a.n * b.d - b.n * a.d, a.d * b.d)
RMul(a, b) == Rat(a.n * b.n, a.d * b.d)
RDiv(a, b) == Rat(a.n * b.d, a.d * b.n)
RLt(a, b) == a.n * b.d < b.n * a.d
RLe(a, b) == a.n * b.d <= b.n * a.d
RZero == RInt(0)

-----------------------------------------------------------------------------
(* str operations on descriptions and tickers *)

\* pad in desc
Contem(desc, pad) ==
    \E i \in 0..(Len(desc) - Len(pad)) : SubSeq(desc, i + 1, i + Len(pad)) = pad

\* str.upper() on the tickers in use
Upper(t) ==
    CASE t = "petr4" -> "PETR4"
      [] t = "btc" -> "BTC"
      [] OTHER -> t

UpperDesc(desc) == [i \in DOMAIN desc |-> Upper(desc[i])]

\* descricao.replace("Compra de ", "").strip(): every "Compra de" that is
\* followed by a space, hence by another word, is dropped
RECURSIVE SemCompraDe(_)
SemCompraDe(desc) ==
    IF desc = <<>> THEN <<>>
    ELSE IF Len(desc) >= 3 /\ desc[1] = "Compra" /\ desc[2] = "de"
         THEN SemCompraDe(SubSeq(desc, 3, Len(desc)))
         ELSE <<desc[1]>> \o SemCompraDe(Tail(desc))

Pad2(m) == IF m < 10 THEN "0" \o ToString(m) ELSE ToString(m)

\* f"{ano}-{mes:02d}"
ChaveMes(ano, mes) == ToString(ano) \o "-" \o Pad2(mes)

\* data.strftime('%m/%Y')
MesAno(data) == Pad2(data.mes) \o "/" \o ToString(data.ano)

-----------------------------------------------------------------------------
(* Entities *)

\* Python's None for an optional id; uuid4 ids are numbered from 1
None == 0

Transacao(id_transacao, id_conta, descricao, valor, tipo, categoria) ==
    [id_transacao |-> id_transacao, id_conta |-> id_conta, descricao |-> descricao,
     valor |-> valor, tipo |-> tipo, categoria |-> categoria]

Ativo(ticker, quantidade, preco_medio, tipo_ativo) ==
    [ticker |-> Upper(ticker), quantidade |-> quantidade,
     preco_medio |-> preco_medio, tipo_ativo |-> tipo_ativo]

ContaCorrente(id_conta, nome, saldo, limite_cheque_especial) ==
    [tipo |-> "ContaCorrente", id_conta |-> id_conta, nome |-> nome,
     saldo |-> saldo, limite_cheque_especial |-> limite_cheque_especial]

ContaInvestimento(id_conta, nome, saldo_caixa, ativos) ==
    [tipo |-> "ContaInvestimento", id_conta |-> id_conta, nome |-> nome,
     saldo_caixa |-> saldo_caixa, ativos |-> ativos]

\* the categories a new GerenciadorContas starts with
CategoriasPadrao ==
    <<"Alimentacao", "Transporte", "Moradia", "Saude", "Lazer", "Educacao",
      "Impostos", "Investimentos", "Outros">>

\* GerenciadorContas() before carregar_dados finds anything to load
GerenciadorVazio ==
    [contas |-> <<>>, transacoes |-> <<>>, cartoes_credito |-> <<>>,
     compras_cartao |-> <<>>, faturas |-> <<>>, categorias |-> CategoriasPadrao,
     tags |-> <<>>, prox_id |-> 1]

\* What a call gives back: the manager afterwards, the return value as ok,
\* in ret the ids it created (or the value it computed), and whether it
\* ended in an exception
Retorno(g, ok, ret) == [g |-> g, ok |-> ok, ret |-> ret, exc |-> FALSE]
Excecao(g) == [g |-> g, ok |-> FALSE, ret |-> <<>>, exc |-> TRUE]

-----------------------------------------------------------------------------
(* Accounts and assets *)

adicionar_conta(g, conta) == [g EXCEPT !.contas = Append(@, conta)]

\* the index of the account in g.contas, 0 for None
buscar_conta_por_id(g, id_conta) ==
    PrimeiroIndice([x \in DOMAIN g.contas |-> g.contas[x].id_conta = id_conta])

editar_limite(g, id_conta, novo) ==
    LET i == buscar_conta_por_id(g, id_conta) IN
    IF i = 0 \/ g.contas[i].tipo # "ContaCorrente" THEN Excecao(g)
    ELSE IF novo # g.contas[i].limite_cheque_especial
         THEN Retorno([g EXCEPT !.contas[i].limite_cheque_especial = novo], TRUE, <<>>)
         ELSE Retorno(g, FALSE, <<>>)

\* atualizar_ou_adicionar_ativo keeping the price of the last purchase as the
\* average
atualizar_ou_adicionar_ativo_ultimo_preco(conta, ticker, quantidade, preco_medio, tipo_ativo) ==
    LET tk == Upper(ticker)
        i == PrimeiroIndice([x \in DOMAIN conta.ativos |->
                 conta.ativos[x].ticker = tk /\ conta.ativos[x].tipo_ativo = tipo_ativo])
    IN  IF i # 0
        THEN LET a == conta.ativos[i]
                 total_valor_antigo == RMul(a.preco_medio, a.quantidade)
                 total_valor_novo == RMul(preco_medio, quantidade)
                 nova_qtd == RAdd(a.quantidade, quantidade)
             IN  IF RLt(RZero, nova_qtd)
                 THEN [conta EXCEPT
                          !.ativos[i].preco_medio =
                              preco_medio,
                          !.ativos[i].quantidade = nova_qtd]
                 ELSE [conta EXCEPT !.ativos[i].quantidade = RZero]
        ELSE [conta EXCEPT
                 !.ativos = Append(@, Ativo(tk, quantidade, preco_medio, tipo_ativo))]

atualizar_ou_adicionar_ativo(conta, ticker, quantidade, preco_medio, tipo_ativo) ==
    LET tk == Upper(ticker)
        i == PrimeiroIndice([x \in DOMAIN conta.ativos |->
                 conta.ativos[x].ticker = tk /\ conta.ativos[x].tipo_ativo = tipo_ativo])
    IN  IF i # 0
        THEN LET a == conta.ativos[i]
                 total_valor_antigo == RMul(a.preco_medio, a.quantidade)
                 total_valor_novo == RMul(preco_medio, quantidade)
                 nova_qtd == RAdd(a.quantidade, quantidade)
             IN  IF RLt(RZero, nova_qtd)
                 THEN [conta EXCEPT
                          !.ativos[i].preco_medio =
                              RDiv(RAdd(total_valor_antigo, total_valor_novo), nova_qtd),
                          !.ativos[i].quantidade = nova_qtd]
                 ELSE [conta EXCEPT !.ativos[i].quantidade = RZero]
        ELSE [conta EXCEPT
                 !.ativos = Append(@, Ativo(tk, quantidade, preco_medio, tipo_ativo))]

\* registrar_transacao debiting a checking account past its overdraft limit
registrar_transacao_sem_limite(g, id_conta, descricao, valor, tipo, categoria) ==
    LET i == buscar_conta_por_id(g, id_conta)
        conta == g.contas[i]
        nova == Transacao(g.prox_id, id_conta, descricao, valor, tipo, categoria)
        Feito(c) == Retorno([g EXCEPT !.contas[i] = c,
                                      !.transacoes = Append(@, nova),
                                      !.prox_id = @ + 1], TRUE, <<nova.id_transacao>>)
    IN  IF i = 0 THEN Retorno(g, FALSE, <<>>)
        ELSE IF tipo = "Receita"
        THEN IF conta.tipo = "ContaCorrente"
             THEN Feito([conta EXCEPT !.saldo = @ + valor])
             ELSE Feito([conta EXCEPT !.saldo_caixa = @ + valor])
        ELSE IF tipo = "Despesa"
        THEN IF conta.tipo = "ContaCorrente"
             THEN IF FALSE
                  THEN Retorno(g, FALSE, <<>>)
                  ELSE Feito([conta EXCEPT !.saldo = @ - valor])
             ELSE IF conta.saldo_caixa < valor
                  THEN Retorno(g, FALSE, <<>>)
                  ELSE Feito([conta EXCEPT !.saldo_caixa = @ - valor])
        ELSE Feito(conta)

registrar_transacao(g, id_conta, descricao, valor, tipo, categoria) ==
    LET i == buscar_conta_por_id(g, id_conta)
        conta == g.contas[i]
        nova == Transacao(g.prox_id, id_conta, descricao, valor, tipo, categoria)
        Feito(c) == Retorno([g EXCEPT !.contas[i] = c,
                                      !.transacoes = Append(@, nova),
                                      !.prox_id = @ + 1], TRUE, <<nova.id_transacao>>)
    IN  IF i = 0 THEN Retorno(g, FALSE, <<>>)
        ELSE IF tipo = "Receita"
        THEN IF conta.tipo = "ContaCorrente"
             THEN Feito([conta EXCEPT !.saldo = @ + valor])
             ELSE Feito([conta EXCEPT !.saldo_caixa = @ + valor])
        ELSE IF tipo = "Despesa"
        THEN IF conta.tipo = "ContaCorrente"
             THEN IF conta.saldo + conta.limite_cheque_especial < valor
                  THEN Retorno(g, FALSE, <<>>)
                  ELSE Feito([conta EXCEPT !.saldo = @ - valor])
             ELSE IF conta.saldo_caixa < valor
                  THEN Retorno(g, FALSE, <<>>)
                  ELSE Feito([conta EXCEPT !.saldo_caixa = @ - valor])
        ELSE Feito(conta)

\* realizar_transferencia debiting the origin without crediting the destination
realizar_transferencia_sem_credito(g, id_origem, id_destino, valor) ==
    LET io == buscar_conta_por_id(g, id_origem)
        id == buscar_conta_por_id(g, id_destino)
        conta_origem == g.contas[io]
        conta_destino == g.contas[id]
        sem_fundos ==
            IF conta_origem.tipo = "ContaCorrente"
            THEN conta_origem.saldo + conta_origem.limite_cheque_especial < valor
            ELSE conta_origem.saldo_caixa < valor
        debitada ==
            IF conta_origem.tipo = "ContaCorrente"
            THEN [conta_origem EXCEPT !.saldo = @ - valor]
            ELSE [conta_origem EXCEPT !.saldo_caixa = @ - valor]
        creditada ==
            IF conta_destino.tipo = "ContaCorrente"
            THEN [conta_destino EXCEPT !.saldo = @ + valor]
            ELSE [conta_destino EXCEPT !.saldo_caixa = @ + valor]
        saida == Transacao(g.prox_id, id_origem,
                           <<"Transferencia", "para", conta_destino.nome>>,
                           valor, "Despesa", "Transferencia")
        entrada == Transacao(g.prox_id + 1, id_destino,
                             <<"Transferencia", "de", conta_origem.nome>>,
                             valor, "Receita", "Transferencia")
    IN  IF id_origem = id_destino THEN Retorno(g, FALSE, <<>>)
        ELSE IF io = 0 \/ id = 0 THEN Retorno(g, FALSE, <<>>)
        ELSE IF sem_fundos THEN Retorno(g, FALSE, <<>>)
        ELSE Retorno([g EXCEPT !.contas[io] = debitada,
                               !.contas[id] = conta_destino,
                               !.transacoes = @ \o <<saida, entrada>>,
                               !.prox_id = @ + 2],
                     TRUE, <<saida.id_transacao, entrada.id_transacao>>)

realizar_transferencia(g, id_origem, id_destino, valor) ==
    LET io == buscar_conta_por_id(g, id_origem)
        id == buscar_conta_por_id(g, id_destino)
        conta_origem == g.contas[io]
        conta_destino == g.contas[id]
        sem_fundos ==
            IF conta_origem.tipo = "ContaCorrente"
            THEN conta_origem.saldo + conta_origem.limite_cheque_especial < valor
            ELSE conta_origem.saldo_caixa < valor
        debitada ==
            IF conta_origem.tipo = "ContaCorrente"
            THEN [conta_origem EXCEPT !.saldo = @ - valor]
            ELSE [conta_origem EXCEPT !.saldo_caixa = @ - valor]
        creditada ==
            IF conta_destino.tipo = "ContaCorrente"
            THEN [conta_destino EXCEPT !.saldo = @ + valor]
            ELSE [conta_destino EXCEPT !.saldo_caixa = @ + valor]
        saida == Transacao(g.prox_id, id_origem,
                           <<"Transferencia", "para", conta_destino.nome>>,
                           valor, "Despesa", "Transferencia")
        entrada == Transacao(g.prox_id + 1, id_destino,
                             <<"Transferencia", "de", conta_origem.nome>>,
                             valor, "Receita", "Transferencia")
    IN  IF id_origem = id_destino THEN Retorno(g, FALSE, <<>>)
        ELSE IF io = 0 \/ id = 0 THEN Retorno(g, FALSE, <<>>)
        ELSE IF sem_fundos THEN Retorno(g, FALSE, <<>>)
        ELSE Retorno([g EXCEPT !.contas[io] = debitada,
                               !.contas[id] = creditada,
                               !.transacoes = @ \o <<saida, entrada>>,
                               !.prox_id = @ + 2],
                     TRUE, <<saida.id_transacao, entrada.id_transacao>>)

comprar_ativo(g, id_conta_destino, ticker, quantidade, preco_unitario, tipo_ativo) ==
    LET i == buscar_conta_por_id(g, id_conta_destino)
        conta == g.contas[i]
        custo == quantidade * preco_unitario
        nova == Transacao(g.prox_id, conta.id_conta, <<"Compra", "de", ticker>>,
                          custo, "Despesa", "Investimentos")
    IN  IF i = 0 \/ conta.tipo # "ContaInvestimento" THEN Retorno(g, FALSE, <<>>)
        ELSE IF conta.saldo_caixa < custo THEN Retorno(g, FALSE, <<>>)
        ELSE Retorno(
                [g EXCEPT !.contas[i] =
                              atualizar_ou_adicionar_ativo(
                                  [conta EXCEPT !.saldo_caixa = @ - custo],
                                  ticker, RInt(quantidade), RInt(preco_unitario),
                                  tipo_ativo),
                          !.transacoes = Append(@, nova),
                          !.prox_id = @ + 1],
                TRUE, <<nova.id_transacao>>)

\* datetime.strptime(data_venda, "%Y-%m-%d") accepts the string
FormatoAnoMesDia(data_venda) == data_venda \in {"2025-11-30", "2025-12-01"}

\* abs(x)
RAbs(x) == [n |-> Abs(x.n), d |-> x.d]

\* f"{x:.2f}" of an amount x >= 0: the nearest whole number of centavos,
\* and either neighbour when x lies halfway, as the binary float may fall on
\* either side
DuasCasas(x) ==
    LET baixo == x.n \div x.d
        resto == x.n % x.d
    IN  IF 2 * resto < x.d THEN {baixo}
        ELSE IF 2 * resto > x.d THEN {baixo + 1}
        ELSE {baixo, baixo + 1}

\* valor_venda - custo_medio for a sale out of holding ativo
LucroPrejuizo(ativo, quantidade, preco_venda) ==
    RSub(RInt(quantidade * preco_venda), RMul(RInt(quantidade), ativo.preco_medio))

\* the figures the description of a sale may show for its profit or loss
LucrosFormatados(g, id_conta, ticker, quantidade, preco_venda) ==
    LET i == buscar_conta_por_id(g, id_conta)
        ia == IF i = 0 \/ g.contas[i].tipo # "ContaInvestimento" THEN 0
              ELSE PrimeiroIndice([x \in DOMAIN g.contas[i].ativos |->
                       g.contas[i].ativos[x].ticker = ticker])
    IN  IF ia = 0 THEN {0}
        ELSE DuasCasas(RAbs(LucroPrejuizo(g.contas[i].ativos[ia], quantidade, preco_venda)))

\* vender_ativo keeping a holding whose quantity a sale brought to zero
vender_ativo_sem_remover(g, id_conta, ticker, quantidade, preco_venda, data_venda, lucro_formatado) ==
    LET i == buscar_conta_por_id(g, id_conta)
        conta == g.contas[i]
        ia == PrimeiroIndice([x \in DOMAIN conta.ativos |-> conta.ativos[x].ticker = ticker])
        ativo == conta.ativos[ia]
        valor_venda == quantidade * preco_venda
        lucro_prejuizo == LucroPrejuizo(ativo, quantidade, preco_venda)
        descricao ==
            IF RLe(RZero, lucro_prejuizo)
            THEN <<"Venda", "de", ticker, "|", "Lucro:", ToString(lucro_formatado)>>
            ELSE <<"Venda", "de", ticker, "|", "Prejuizo:", ToString(lucro_formatado)>>
        restante == RSub(ativo.quantidade, RInt(quantidade))
        ativos ==
            IF RLt(restante, RZero)
            THEN SelectSeq(conta.ativos, LAMBDA a : a.ticker # ticker)
            ELSE [conta.ativos EXCEPT ![ia].quantidade = restante]
        vendida == [conta EXCEPT !.ativos = ativos, !.saldo_caixa = @ + valor_venda]
        nova == Transacao(g.prox_id, id_conta, descricao, valor_venda,
                          "Receita", "Venda de Investimento")
    IN  IF i = 0 \/ conta.tipo # "ContaInvestimento" THEN Retorno(g, FALSE, <<>>)
        ELSE IF ia = 0 THEN Retorno(g, FALSE, <<>>)
        ELSE IF RLt(ativo.quantidade, RInt(quantidade)) THEN Retorno(g, FALSE, <<>>)
        ELSE IF ~FormatoAnoMesDia(data_venda)
        THEN Excecao([g EXCEPT !.contas[i] = vendida])
        ELSE Retorno([g EXCEPT !.contas[i] = vendida,
                               !.transacoes = Append(@, nova),
                               !.prox_id = @ + 1],
                     TRUE, <<nova.id_transacao>>)

\* vender_ativo selling more units than the holding has
vender_ativo_a_descoberto(g, id_conta, ticker, quantidade, preco_venda, data_venda, lucro_formatado) ==
    LET i == buscar_conta_por_id(g, id_conta)
        conta == g.contas[i]
        ia == PrimeiroIndice([x \in DOMAIN conta.ativos |-> conta.ativos[x].ticker = ticker])
        ativo == conta.ativos[ia]
        valor_venda == quantidade * preco_venda
        lucro_prejuizo == LucroPrejuizo(ativo, quantidade, preco_venda)
        descricao ==
            IF RLe(RZero, lucro_prejuizo)
            THEN <<"Venda", "de", ticker, "|", "Lucro:", ToString(lucro_formatado)>>
            ELSE <<"Venda", "de", ticker, "|", "Prejuizo:", ToString(lucro_formatado)>>
        restante == RSub(ativo.quantidade, RInt(quantidade))
        ativos ==
            IF RLe(restante, RZero)
            THEN SelectSeq(conta.ativos, LAMBDA a : a.ticker # ticker)
            ELSE [conta.ativos EXCEPT ![ia].quantidade = restante]
        vendida == [conta EXCEPT !.ativos = ativos, !.saldo_caixa = @ + valor_venda]
        nova == Transacao(g.prox_id, id_conta, descricao, valor_venda,
                          "Receita", "Venda de Investimento")
    IN  IF i = 0 \/ conta.tipo # "ContaInvestimento" THEN Retorno(g, FALSE, <<>>)
        ELSE IF ia = 0 THEN Retorno(g, FALSE, <<>>)
        ELSE IF FALSE THEN Retorno(g, FALSE, <<>>)
        ELSE IF ~FormatoAnoMesDia(data_venda)
        THEN Excecao([g EXCEPT !.contas[i] = vendida])
        ELSE Retorno([g EXCEPT !.contas[i] = vendida,
                               !.transacoes = Append(@, nova),
                               !.prox_id = @ + 1],
                     TRUE, <<nova.id_transacao>>)

\* lucro_formatado is the profit or loss as the description shows it, one
\* of LucrosFormatados; the percentage and the observation are left out
vender_ativo(g, id_conta, ticker, quantidade, preco_venda, data_venda, lucro_formatado) ==
    LET i == buscar_conta_por_id(g, id_conta)
        conta == g.contas[i]
        ia == PrimeiroIndice([x \in DOMAIN conta.ativos |-> conta.ativos[x].ticker = ticker])
        ativo == conta.ativos[ia]
        valor_venda == quantidade * preco_venda
        lucro_prejuizo == LucroPrejuizo(ativo, quantidade, preco_venda)
        descricao ==
            IF RLe(RZero, lucro_prejuizo)
            THEN <<"Venda", "de", ticker, "|", "Lucro:", ToString(lucro_formatado)>>
            ELSE <<"Venda", "de", ticker, "|", "Prejuizo:", ToString(lucro_formatado)>>
        restante == RSub(ativo.quantidade, RInt(quantidade))
        ativos ==
            IF RLe(restante, RZero)
            THEN SelectSeq(conta.ativos, LAMBDA a : a.ticker # ticker)
            ELSE [conta.ativos EXCEPT ![ia].quantidade = restante]
        vendida == [conta EXCEPT !.ativos = ativos, !.saldo_caixa = @ + valor_venda]
        nova == Transacao(g.prox_id, id_conta, descricao, valor_venda,
                          "Receita", "Venda de Investimento")
    IN  IF i = 0 \/ conta.tipo # "ContaInvestimento" THEN Retorno(g, FALSE, <<>>)
        ELSE IF ia = 0 THEN Retorno(g, FALSE, <<>>)
        ELSE IF RLt(ativo.quantidade, RInt(quantidade)) THEN Retorno(g, FALSE, <<>>)
        ELSE IF ~FormatoAnoMesDia(data_venda)
        THEN Excecao([g EXCEPT !.contas[i] = vendida])
        ELSE Retorno([g EXCEPT !.contas[i] = vendida,
                               !.transacoes = Append(@, nova),
                               !.prox_id = @ + 1],
                     TRUE, <<nova.id_transacao>>)

\* remover_conta leaving the entries of the account on the ledger
remover_conta_sem_lancamentos(g, id_conta) ==
    IF buscar_conta_por_id(g, id_conta) = 0 THEN Retorno(g, FALSE, <<>>)
    ELSE Retorno([g EXCEPT
                     !.transacoes = @,
                     !.contas = SelectSeq(@, LAMBDA c : c.id_conta # id_conta)],
                 TRUE, <<>>)

remover_conta(g, id_conta) ==
    IF buscar_conta_por_id(g, id_conta) = 0 THEN Retorno(g, FALSE, <<>>)
    ELSE Retorno([g EXCEPT
                     !.transacoes = SelectSeq(@, LAMBDA t : t.id_conta # id_conta),
                     !.contas = SelectSeq(@, LAMBDA c : c.id_conta # id_conta)],
                 TRUE, <<>>)

\* 0.000001, the quantity under which remover_transacao drops a holding
Limiar == Rat(1, 1000000)

\* the holding of an investment account after the reversal of a purchase
\* entry: [ativos, exc]
ReverterCompra(conta, transacao) ==
    LET ticker_desc == SemCompraDe(transacao.descricao)
        ia == PrimeiroIndice([x \in DOMAIN conta.ativos |->
                  <<Upper(conta.ativos[x].ticker)>> = UpperDesc(ticker_desc)])
        ativo == conta.ativos[ia]
        quantidade_comprada == RDiv(RInt(transacao.valor), ativo.preco_medio)
        restante == RSub(ativo.quantidade, quantidade_comprada)
    IN  IF ia = 0 THEN [ativos |-> conta.ativos, exc |-> FALSE]
        ELSE IF ativo.preco_medio.n = 0 THEN [ativos |-> conta.ativos, exc |-> TRUE]
        ELSE IF RLe(restante, Limiar)
        THEN [ativos |-> SelectSeq(conta.ativos,
                             LAMBDA a : <<Upper(a.ticker)>> # UpperDesc(ticker_desc)),
              exc |-> FALSE]
        ELSE [ativos |-> [conta.ativos EXCEPT ![ia].quantidade = restante],
              exc |-> FALSE]

\* remover_transacao that drops an expense of a checking account without
\* giving the amount back
remover_transacao_sem_estorno(g, id_transacao) ==
    LET it == PrimeiroIndice([x \in DOMAIN g.transacoes |->
                  g.transacoes[x].id_transacao = id_transacao])
        transacao == g.transacoes[it]
        i == buscar_conta_por_id(g, transacao.id_conta)
        conta == g.contas[i]
        compra == /\ transacao.categoria = "Investimentos"
                  /\ Contem(transacao.descricao, <<"Compra", "de">>)
        rev == ReverterCompra(conta, transacao)
        Feito(c) ==
            Retorno([g EXCEPT !.contas[i] = c,
                              !.transacoes = SelectSeq(@,
                                  LAMBDA t : t.id_transacao # id_transacao)],
                    TRUE, <<>>)
    IN  IF it = 0 THEN Retorno(g, FALSE, <<>>)
        ELSE IF i = 0 THEN Retorno(g, FALSE, <<>>)
        ELSE IF transacao.tipo = "Receita"
        THEN IF conta.tipo = "ContaCorrente"
             THEN Feito([conta EXCEPT !.saldo = @ - transacao.valor])
             ELSE Feito([conta EXCEPT !.saldo_caixa = @ - transacao.valor])
        ELSE IF transacao.tipo = "Despesa"
        THEN IF conta.tipo = "ContaCorrente"
             THEN Feito(conta)
             ELSE IF compra
                  THEN IF rev.exc THEN Excecao(g)
                       ELSE Feito([conta EXCEPT !.ativos = rev.ativos,
                                                !.saldo_caixa = @ + transacao.valor])
                  ELSE Feito([conta EXCEPT !.saldo_caixa = @ + transacao.valor])
        ELSE Feito(conta)

remover_transacao(g, id_transacao) ==
    LET it == PrimeiroIndice([x \in DOMAIN g.transacoes |->
                  g.transacoes[x].id_transacao = id_transacao])
        transacao == g.transacoes[it]
        i == buscar_conta_por_id(g, transacao.id_conta)
        conta == g.contas[i]
        compra == /\ transacao.categoria = "Investimentos"
                  /\ Contem(transacao.descricao, <<"Compra", "de">>)
        rev == ReverterCompra(conta, transacao)
        Feito(c) ==
            Retorno([g EXCEPT !.contas[i] = c,
                              !.transacoes = SelectSeq(@,
                                  LAMBDA t : t.id_transacao # id_transacao)],
                    TRUE, <<>>)
    IN  IF it = 0 THEN Retorno(g, FALSE, <<>>)
        ELSE IF i = 0 THEN Retorno(g, FALSE, <<>>)
        ELSE IF transacao.tipo = "Receita"
        THEN IF conta.tipo = "ContaCorrente"
             THEN Feito([conta EXCEPT !.saldo = @ - transacao.valor])
             ELSE Feito([conta EXCEPT !.saldo_caixa = @ - transacao.valor])
        ELSE IF transacao.tipo = "Despesa"
        THEN IF conta.tipo = "ContaCorrente"
             THEN Feito([conta EXCEPT !.saldo = @ + transacao.valor])
             ELSE IF compra
                  THEN IF rev.exc THEN Excecao(g)
                       ELSE Feito([conta EXCEPT !.ativos = rev.ativos,
                                                !.saldo_caixa = @ + transacao.valor])
                  ELSE Feito([conta EXCEPT !.saldo_caixa = @ + transacao.valor])
        ELSE Feito(conta)

-----------------------------------------------------------------------------
(* Dates: datetime.date as [ano, mes, dia] *)

Data(ano, mes, dia) == [ano |-> ano, mes |-> mes, dia |-> dia]

Bissexto(ano) == (ano % 4 = 0 /\ ano % 100 # 0) \/ ano % 400 = 0

\* calendar.monthrange(ano, mes)[1]
DiasNoMes(ano, mes) ==
    IF mes = 2 THEN (IF Bissexto(ano) THEN 29 ELSE 28)
    ELSE IF mes \in {4, 6, 9, 11} THEN 30 ELSE 31

Min(a, b) == IF a <= b THEN a ELSE b

\* data + relativedelta(months=i)
MaisMeses(data, i) ==
    LET total == (data.mes - 1) + i
        ano == data.ano + (total \div 12)
        mes == (total % 12) + 1
    IN  Data(ano, mes, Min(data.dia, DiasNoMes(ano, mes)))

-----------------------------------------------------------------------------
(* Credit cards, charges and invoices *)

DictVazio == [k \in {} |-> 0]

\* d.get(k, padrao) and d[k] = v
DictGet(d, k, padrao) == IF k \in DOMAIN d THEN d[k] ELSE padrao
DictSet(d, k, v) == [x \in DOMAIN d \cup {k} |-> IF x = k THEN v ELSE d[x]]

\* del d[k]
DictDel(d, k) == [x \in DOMAIN d \ {k} |-> d[x]]

CartaoCredito(id_cartao, nome, dia_fechamento, dia_vencimento) ==
    [id_cartao |-> id_cartao, nome |-> nome, dia_fechamento |-> dia_fechamento,
     dia_vencimento |-> dia_vencimento, fechamentos_customizados |-> DictVazio]

CompraCartao(id_compra, id_cartao, valor, data_compra, total_parcelas, parcela_atual, id_compra_original, data_compra_real) ==
    [id_compra |-> id_compra, id_cartao |-> id_cartao, valor |-> valor,
     data_compra |-> data_compra, total_parcelas |-> total_parcelas,
     parcela_atual |-> parcela_atual, id_compra_original |-> id_compra_original,
     id_fatura |-> None, data_compra_real |-> data_compra_real]

Fatura(id_fatura, id_cartao, data_fechamento, data_vencimento, valor_total) ==
    [id_fatura |-> id_fatura, id_cartao |-> id_cartao,
     data_fechamento |-> data_fechamento, data_vencimento |-> data_vencimento,
     valor_total |-> valor_total, status |-> "Fechada"]

\* the index of the card in g.cartoes_credito, 0 for None
buscar_cartao_por_id(g, id_cartao) ==
    PrimeiroIndice([x \in DOMAIN g.cartoes_credito |->
        g.cartoes_credito[x].id_cartao = id_cartao])

adicionar_cartao_credito(g, cartao) == [g EXCEPT !.cartoes_credito = Append(@, cartao)]

\* remover_cartao_credito answering True whether or not the card exists
remover_cartao_credito_sempre(g, id_cartao) ==
    IF buscar_cartao_por_id(g, id_cartao) = 0 THEN Retorno(g, TRUE, <<>>)
    ELSE Retorno([g EXCEPT
                     !.compras_cartao = SelectSeq(@, LAMBDA c : c.id_cartao # id_cartao),
                     !.faturas = SelectSeq(@, LAMBDA f : f.id_cartao # id_cartao),
                     !.cartoes_credito = SelectSeq(@, LAMBDA c : c.id_cartao # id_cartao)],
                 TRUE, <<>>)

\* remover_cartao_credito leaving the charges of the card in place
remover_cartao_credito_sem_compras(g, id_cartao) ==
    IF buscar_cartao_por_id(g, id_cartao) = 0 THEN Retorno(g, FALSE, <<>>)
    ELSE Retorno([g EXCEPT
                     !.compras_cartao = @,
                     !.faturas = SelectSeq(@, LAMBDA f : f.id_cartao # id_cartao),
                     !.cartoes_credito = SelectSeq(@, LAMBDA c : c.id_cartao # id_cartao)],
                 TRUE, <<>>)

remover_cartao_credito(g, id_cartao) ==
    IF buscar_cartao_por_id(g, id_cartao) = 0 THEN Retorno(g, FALSE, <<>>)
    ELSE Retorno([g EXCEPT
                     !.compras_cartao = SelectSeq(@, LAMBDA c : c.id_cartao # id_cartao),
                     !.faturas = SelectSeq(@, LAMBDA f : f.id_cartao # id_cartao),
                     !.cartoes_credito = SelectSeq(@, LAMBDA c : c.id_cartao # id_cartao)],
                 TRUE, <<>>)

\* calcular_ciclo_compra that moves a purchase made on the closing day itself
\* to the next cycle
calcular_ciclo_compra_no_dia(g, id_cartao, data_compra) ==
    LET i == buscar_cartao_por_id(g, id_cartao)
        cartao == g.cartoes_credito[i]
        chave_mes == ChaveMes(data_compra.ano, data_compra.mes)
        dia_fechamento ==
            DictGet(cartao.fechamentos_customizados, chave_mes, cartao.dia_fechamento)
    IN  IF i = 0 THEN <<data_compra.ano, data_compra.mes>>
        ELSE IF data_compra.dia >= dia_fechamento
        THEN IF data_compra.mes = 12
             THEN <<data_compra.ano + 1, 1>>
             ELSE <<data_compra.ano, data_compra.mes + 1>>
        ELSE <<data_compra.ano, data_compra.mes>>

\* (ano, mes) of the cycle of a purchase made on data_compra
calcular_ciclo_compra(g, id_cartao, data_compra) ==
    LET i == buscar_cartao_por_id(g, id_cartao)
        cartao == g.cartoes_credito[i]
        chave_mes == ChaveMes(data_compra.ano, data_compra.mes)
        dia_fechamento ==
            DictGet(cartao.fechamentos_customizados, chave_mes, cartao.dia_fechamento)
    IN  IF i = 0 THEN <<data_compra.ano, data_compra.mes>>
        ELSE IF data_compra.dia > dia_fechamento
        THEN IF data_compra.mes = 12
             THEN <<data_compra.ano + 1, 1>>
             ELSE <<data_compra.ano, data_compra.mes + 1>>
        ELSE <<data_compra.ano, data_compra.mes>>

\* round(valor_total / num_parcelas, 2) in centavos.  On an exact half the
\* float quotient lies on either side of it, so both neighbours are outcomes.
ValoresParcela(valor_total, num_parcelas) ==
    LET q == valor_total \div num_parcelas
        r == valor_total % num_parcelas
    IN  IF 2 * r < num_parcelas THEN {q}
        ELSE IF 2 * r > num_parcelas THEN {q + 1}
        ELSE {q, q + 1}

\* Parcela that dates every installment as if bought on the purchase date
Parcela_no_mes_da_compra(g, id_cartao, valor_parcela, data_compra, num_parcelas, id_compra_original, i) ==
    LET cartao == g.cartoes_credito[buscar_cartao_por_id(g, id_cartao)]
        data_compra_parcela == data_compra
        ciclo == calcular_ciclo_compra(g, id_cartao, data_compra_parcela)
        ultimo_dia == DiasNoMes(ciclo[1], ciclo[2])
        data_vencimento == Data(ciclo[1], ciclo[2], Min(cartao.dia_vencimento, ultimo_dia))
    IN  CompraCartao(id_compra_original + 1 + i, id_cartao, valor_parcela,
                     data_vencimento, num_parcelas, i + 1, id_compra_original,
                     data_compra)

\* the charge of installment i (0-based) of a purchase
Parcela(g, id_cartao, valor_parcela, data_compra, num_parcelas, id_compra_original, i) ==
    LET cartao == g.cartoes_credito[buscar_cartao_por_id(g, id_cartao)]
        data_compra_parcela == MaisMeses(data_compra, i)
        ciclo == calcular_ciclo_compra(g, id_cartao, data_compra_parcela)
        ultimo_dia == DiasNoMes(ciclo[1], ciclo[2])
        data_vencimento == Data(ciclo[1], ciclo[2], Min(cartao.dia_vencimento, ultimo_dia))
    IN  CompraCartao(id_compra_original + 1 + i, id_cartao, valor_parcela,
                     data_vencimento, num_parcelas, i + 1, id_compra_original,
                     data_compra)

\* registrar_compra_cartao putting on the first installment what the rounding
\* left out of the total
registrar_compra_cartao_com_acerto(g, id_cartao, valor_total, data_compra, num_parcelas, valor_parcela) ==
    LET id_compra_original == g.prox_id
        n == IF num_parcelas > 0 THEN num_parcelas ELSE 0
        novas == [k \in 1..n |->
                    Parcela(g, id_cartao, IF k = 1 THEN valor_total - (n - 1) * valor_parcela ELSE valor_parcela, data_compra, num_parcelas,
                            id_compra_original, k - 1)]
    IN  IF buscar_cartao_por_id(g, id_cartao) = 0 THEN Retorno(g, FALSE, <<>>)
        ELSE IF num_parcelas = 0 THEN Excecao(g)
        ELSE Retorno([g EXCEPT !.compras_cartao = @ \o novas,
                               !.prox_id = @ + 1 + n],
                     TRUE, [k \in 1..n |-> novas[k].id_compra])

\* valor_parcela is the outcome of the rounding, one of ValoresParcela
registrar_compra_cartao(g, id_cartao, valor_total, data_compra, num_parcelas, valor_parcela) ==
    LET id_compra_original == g.prox_id
        n == IF num_parcelas > 0 THEN num_parcelas ELSE 0
        novas == [k \in 1..n |->
                    Parcela(g, id_cartao, valor_parcela, data_compra, num_parcelas,
                            id_compra_original, k - 1)]
    IN  IF buscar_cartao_por_id(g, id_cartao) = 0 THEN Retorno(g, FALSE, <<>>)
        ELSE IF num_parcelas = 0 THEN Excecao(g)
        ELSE Retorno([g EXCEPT !.compras_cartao = @ \o novas,
                               !.prox_id = @ + 1 + n],
                     TRUE, [k \in 1..n |-> novas[k].id_compra])

remover_compra_cartao(g, id_compra_original) ==
    Retorno([g EXCEPT !.compras_cartao =
                SelectSeq(@, LAMBDA c : c.id_compra_original # id_compra_original)],
            TRUE, <<>>)

\* fechar_fatura that gathers the Open charges of the cycle from every card
fechar_fatura_de_qualquer_cartao(g, id_cartao, data_fechamento_real, data_vencimento_real) ==
    LET i == buscar_cartao_por_id(g, id_cartao)
        cartao == g.cartoes_credito[i]
        ano_ciclo == data_fechamento_real.ano
        mes_ciclo == data_fechamento_real.mes
        DoCiclo(c) == /\ c.data_compra.ano = ano_ciclo
                      /\ c.data_compra.mes = mes_ciclo
                      /\ c.id_fatura = None
        compras_do_ciclo == SelectSeq(g.compras_cartao, DoCiclo)
        valor_total == Soma([k \in DOMAIN compras_do_ciclo |-> compras_do_ciclo[k].valor])
        nova_fatura == Fatura(g.prox_id, id_cartao, data_fechamento_real,
                              data_vencimento_real, valor_total)
        vinculadas == [k \in DOMAIN g.compras_cartao |->
                          IF DoCiclo(g.compras_cartao[k])
                          THEN [g.compras_cartao[k] EXCEPT !.id_fatura = nova_fatura.id_fatura]
                          ELSE g.compras_cartao[k]]
        customizados ==
            IF data_fechamento_real.dia # cartao.dia_fechamento
            THEN DictSet(cartao.fechamentos_customizados,
                         ChaveMes(ano_ciclo, mes_ciclo), data_fechamento_real.dia)
            ELSE cartao.fechamentos_customizados
    IN  IF i = 0 THEN Retorno(g, FALSE, <<>>)
        ELSE IF compras_do_ciclo = <<>> THEN Retorno(g, FALSE, <<>>)
        ELSE Retorno([g EXCEPT !.faturas = Append(@, nova_fatura),
                               !.compras_cartao = vinculadas,
                               !.cartoes_credito[i].fechamentos_customizados = customizados,
                               !.prox_id = @ + 1],
                     TRUE, <<nova_fatura.id_fatura>>)

\* fechar_fatura recording the closing day of every invoice it creates, the
\* card's own closing day included
fechar_fatura_sempre_registra(g, id_cartao, data_fechamento_real, data_vencimento_real) ==
    LET i == buscar_cartao_por_id(g, id_cartao)
        cartao == g.cartoes_credito[i]
        ano_ciclo == data_fechamento_real.ano
        mes_ciclo == data_fechamento_real.mes
        DoCiclo(c) == /\ c.id_cartao = id_cartao
                      /\ c.data_compra.ano = ano_ciclo
                      /\ c.data_compra.mes = mes_ciclo
                      /\ c.id_fatura = None
        compras_do_ciclo == SelectSeq(g.compras_cartao, DoCiclo)
        valor_total == Soma([k \in DOMAIN compras_do_ciclo |-> compras_do_ciclo[k].valor])
        nova_fatura == Fatura(g.prox_id, id_cartao, data_fechamento_real,
                              data_vencimento_real, valor_total)
        vinculadas == [k \in DOMAIN g.compras_cartao |->
                          IF DoCiclo(g.compras_cartao[k])
                          THEN [g.compras_cartao[k] EXCEPT !.id_fatura = nova_fatura.id_fatura]
                          ELSE g.compras_cartao[k]]
        customizados ==
            IF TRUE
            THEN DictSet(cartao.fechamentos_customizados,
                         ChaveMes(ano_ciclo, mes_ciclo), data_fechamento_real.dia)
            ELSE cartao.fechamentos_customizados
    IN  IF i = 0 THEN Retorno(g, FALSE, <<>>)
        ELSE IF compras_do_ciclo = <<>> THEN Retorno(g, FALSE, <<>>)
        ELSE Retorno([g EXCEPT !.faturas = Append(@, nova_fatura),
                               !.compras_cartao = vinculadas,
                               !.cartoes_credito[i].fechamentos_customizados = customizados,
                               !.prox_id = @ + 1],
                     TRUE, <<nova_fatura.id_fatura>>)

\* fechar_fatura gathering the charges of the cycle whether or not an invoice
\* already holds them
fechar_fatura_de_compras_fechadas(g, id_cartao, data_fechamento_real, data_vencimento_real) ==
    LET i == buscar_cartao_por_id(g, id_cartao)
        cartao == g.cartoes_credito[i]
        ano_ciclo == data_fechamento_real.ano
        mes_ciclo == data_fechamento_real.mes
        DoCiclo(c) == /\ c.id_cartao = id_cartao
                      /\ c.data_compra.ano = ano_ciclo
                      /\ c.data_compra.mes = mes_ciclo
                      /\ TRUE
        compras_do_ciclo == SelectSeq(g.compras_cartao, DoCiclo)
        valor_total == Soma([k \in DOMAIN compras_do_ciclo |-> compras_do_ciclo[k].valor])
        nova_fatura == Fatura(g.prox_id, id_cartao, data_fechamento_real,
                              data_vencimento_real, valor_total)
        vinculadas == [k \in DOMAIN g.compras_cartao |->
                          IF DoCiclo(g.compras_cartao[k])
                          THEN [g.compras_cartao[k] EXCEPT !.id_fatura = nova_fatura.id_fatura]
                          ELSE g.compras_cartao[k]]
        customizados ==
            IF data_fechamento_real.dia # cartao.dia_fechamento
            THEN DictSet(cartao.fechamentos_customizados,
                         ChaveMes(ano_ciclo, mes_ciclo), data_fechamento_real.dia)
            ELSE cartao.fechamentos_customizados
    IN  IF i = 0 THEN Retorno(g, FALSE, <<>>)
        ELSE IF compras_do_ciclo = <<>> THEN Retorno(g, FALSE, <<>>)
        ELSE Retorno([g EXCEPT !.faturas = Append(@, nova_fatura),
                               !.compras_cartao = vinculadas,
                               !.cartoes_credito[i].fechamentos_customizados = customizados,
                               !.prox_id = @ + 1],
                     TRUE, <<nova_fatura.id_fatura>>)

\* The second definition of fechar_fatura, the one the class ends up with.
\* ok is "an invoice was returned"; ret holds its id.
fechar_fatura(g, id_cartao, data_fechamento_real, data_vencimento_real) ==
    LET i == buscar_cartao_por_id(g, id_cartao)
        cartao == g.cartoes_credito[i]
        ano_ciclo == data_fechamento_real.ano
        mes_ciclo == data_fechamento_real.mes
        DoCiclo(c) == /\ c.id_cartao = id_cartao
                      /\ c.data_compra.ano = ano_ciclo
                      /\ c.data_compra.mes = mes_ciclo
                      /\ c.id_fatura = None
        compras_do_ciclo == SelectSeq(g.compras_cartao, DoCiclo)
        valor_total == Soma([k \in DOMAIN compras_do_ciclo |-> compras_do_ciclo[k].valor])
        nova_fatura == Fatura(g.prox_id, id_cartao, data_fechamento_real,
                              data_vencimento_real, valor_total)
        vinculadas == [k \in DOMAIN g.compras_cartao |->
                          IF DoCiclo(g.compras_cartao[k])
                          THEN [g.compras_cartao[k] EXCEPT !.id_fatura = nova_fatura.id_fatura]
                          ELSE g.compras_cartao[k]]
        customizados ==
            IF data_fechamento_real.dia # cartao.dia_fechamento
            THEN DictSet(cartao.fechamentos_customizados,
                         ChaveMes(ano_ciclo, mes_ciclo), data_fechamento_real.dia)
            ELSE cartao.fechamentos_customizados
    IN  IF i = 0 THEN Retorno(g, FALSE, <<>>)
        ELSE IF compras_do_ciclo = <<>> THEN Retorno(g, FALSE, <<>>)
        ELSE Retorno([g EXCEPT !.faturas = Append(@, nova_fatura),
                               !.compras_cartao = vinculadas,
                               !.cartoes_credito[i].fechamentos_customizados = customizados,
                               !.prox_id = @ + 1],
                     TRUE, <<nova_fatura.id_fatura>>)

\* f"Pagamento Fatura {data_vencimento.strftime('%m/%Y')}"
DescricaoPagamento(fatura) == <<"Pagamento", "Fatura", MesAno(fatura.data_vencimento)>>

\* pagar_fatura debiting the account whatever its saldo and limit
pagar_fatura_sem_limite(g, id_fatura, id_conta_pagamento) ==
    LET k == PrimeiroIndice([x \in DOMAIN g.faturas |->
                 g.faturas[x].id_fatura = id_fatura])
        fatura == g.faturas[k]
        i == buscar_conta_por_id(g, id_conta_pagamento)
        conta == g.contas[i]
        valor == fatura.valor_total
        nova == Transacao(g.prox_id, conta.id_conta, DescricaoPagamento(fatura),
                          valor, "Despesa", "Cartao de Credito")
    IN  IF k = 0 \/ fatura.status = "Paga" THEN Retorno(g, FALSE, <<>>)
        ELSE IF i = 0 \/ conta.tipo # "ContaCorrente" THEN Retorno(g, FALSE, <<>>)
        ELSE IF FALSE
        THEN Retorno(g, FALSE, <<>>)
        ELSE Retorno([g EXCEPT !.contas[i].saldo = @ - valor,
                               !.faturas[k].status = "Paga",
                               !.transacoes = Append(@, nova),
                               !.prox_id = @ + 1],
                     TRUE, <<nova.id_transacao>>)

\* pagar_fatura marking the invoice Paga without debiting the account
pagar_fatura_sem_debito(g, id_fatura, id_conta_pagamento) ==
    LET k == PrimeiroIndice([x \in DOMAIN g.faturas |->
                 g.faturas[x].id_fatura = id_fatura])
        fatura == g.faturas[k]
        i == buscar_conta_por_id(g, id_conta_pagamento)
        conta == g.contas[i]
        valor == fatura.valor_total
        nova == Transacao(g.prox_id, conta.id_conta, DescricaoPagamento(fatura),
                          valor, "Despesa", "Cartao de Credito")
    IN  IF k = 0 \/ fatura.status = "Paga" THEN Retorno(g, FALSE, <<>>)
        ELSE IF i = 0 \/ conta.tipo # "ContaCorrente" THEN Retorno(g, FALSE, <<>>)
        ELSE IF conta.saldo + conta.limite_cheque_especial < valor
        THEN Retorno(g, FALSE, <<>>)
        ELSE Retorno([g EXCEPT !.contas[i].saldo = @,
                               !.faturas[k].status = "Paga",
                               !.transacoes = Append(@, nova),
                               !.prox_id = @ + 1],
                     TRUE, <<nova.id_transacao>>)

pagar_fatura(g, id_fatura, id_conta_pagamento) ==
    LET k == PrimeiroIndice([x \in DOMAIN g.faturas |->
                 g.faturas[x].id_fatura = id_fatura])
        fatura == g.faturas[k]
        i == buscar_conta_por_id(g, id_conta_pagamento)
        conta == g.contas[i]
        valor == fatura.valor_total
        nova == Transacao(g.prox_id, conta.id_conta, DescricaoPagamento(fatura),
                          valor, "Despesa", "Cartao de Credito")
    IN  IF k = 0 \/ fatura.status = "Paga" THEN Retorno(g, FALSE, <<>>)
        ELSE IF i = 0 \/ conta.tipo # "ContaCorrente" THEN Retorno(g, FALSE, <<>>)
        ELSE IF conta.saldo + conta.limite_cheque_especial < valor
        THEN Retorno(g, FALSE, <<>>)
        ELSE Retorno([g EXCEPT !.contas[i].saldo = @ - valor,
                               !.faturas[k].status = "Paga",
                               !.transacoes = Append(@, nova),
                               !.prox_id = @ + 1],
                     TRUE, <<nova.id_transacao>>)

\* nome in descricao
NomeEm(nome, descricao) == nome = "" \/ Contem(descricao, <<nome>>)

\* the index in g.transacoes of the payment reabrir_fatura reverses, 0 for None
TransacaoPagamento(g, fatura) ==
    LET ic == buscar_cartao_por_id(g, fatura.id_cartao) IN
    PrimeiroIndice([k \in DOMAIN g.transacoes |->
        LET t == g.transacoes[k]
        IN  /\ t.categoria = "Cartao de Credito"
            /\ Contem(t.descricao, DescricaoPagamento(fatura))
            /\ ic # 0
            /\ NomeEm(g.cartoes_credito[ic].nome, t.descricao)])

\* reabrir_fatura removing the invoice but leaving its charges linked to it
reabrir_fatura_sem_desvincular(g, id_fatura) ==
    LET k == PrimeiroIndice([x \in DOMAIN g.faturas |->
                 g.faturas[x].id_fatura = id_fatura])
        fatura == g.faturas[k]
        it == IF fatura.status = "Paga" THEN TransacaoPagamento(g, fatura) ELSE 0
        transacao_pagamento == g.transacoes[it]
        i == IF it = 0 THEN 0 ELSE buscar_conta_por_id(g, transacao_pagamento.id_conta)
        estorna == i # 0 /\ g.contas[i].tipo = "ContaCorrente"
        estornado ==
            IF estorna
            THEN [g EXCEPT !.contas[i].saldo = @ + transacao_pagamento.valor,
                           !.transacoes = SubSeq(@, 1, it - 1) \o SubSeq(@, it + 1, Len(@))]
            ELSE g
    IN  IF k = 0 THEN Retorno(g, FALSE, <<>>)
        ELSE Retorno([estornado EXCEPT
                         !.compras_cartao =
                             [j \in DOMAIN @ |->
                                 IF @[j].id_fatura = id_fatura
                                 THEN @[j]
                                 ELSE @[j]],
                         !.faturas = SubSeq(@, 1, k - 1) \o SubSeq(@, k + 1, Len(@))],
                     TRUE, <<>>)

reabrir_fatura(g, id_fatura) ==
    LET k == PrimeiroIndice([x \in DOMAIN g.faturas |->
                 g.faturas[x].id_fatura = id_fatura])
        fatura == g.faturas[k]
        it == IF fatura.status = "Paga" THEN TransacaoPagamento(g, fatura) ELSE 0
        transacao_pagamento == g.transacoes[it]
        i == IF it = 0 THEN 0 ELSE buscar_conta_por_id(g, transacao_pagamento.id_conta)
        estorna == i # 0 /\ g.contas[i].tipo = "ContaCorrente"
        estornado ==
            IF estorna
            THEN [g EXCEPT !.contas[i].saldo = @ + transacao_pagamento.valor,
                           !.transacoes = SubSeq(@, 1, it - 1) \o SubSeq(@, it + 1, Len(@))]
            ELSE g
    IN  IF k = 0 THEN Retorno(g, FALSE, <<>>)
        ELSE Retorno([estornado EXCEPT
                         !.compras_cartao =
                             [j \in DOMAIN @ |->
                                 IF @[j].id_fatura = id_fatura
                                 THEN [@[j] EXCEPT !.id_fatura = None]
                                 ELSE @[j]],
                         !.faturas = SubSeq(@, 1, k - 1) \o SubSeq(@, k + 1, Len(@))],
                     TRUE, <<>>)

ciclo_esta_fechado(g, id_cartao, ano, mes) ==
    \E k \in DOMAIN g.faturas :
        /\ g.faturas[k].id_cartao = id_cartao
        /\ g.faturas[k].data_vencimento.ano = ano
        /\ g.faturas[k].data_vencimento.mes = mes

-----------------------------------------------------------------------------
(* Valuation of an investment account.  What the price services answer is an
   input of the call: cotacoes[ticker] is [ok, preco], ok FALSE when the
   lookup fails (obter_preco_atual gives None, _obter_preco_atual_seguro
   gives 0.0); fx is the USD/BRL rate _obter_fx_usd_brl gives. *)

\* the current price in BRL that the loop of calcular_posicao_conta_investimento
\* settles on for one holding
PrecoAtualBrl(ativo, cotacao, fx) ==
    IF ativo.tipo_ativo \in {"Tesouro Direto", "Cripto"}
    THEN IF cotacao.ok THEN RInt(cotacao.preco) ELSE ativo.preco_medio
    ELSE LET preco_atual_raw == IF cotacao.ok THEN cotacao.preco ELSE 0
             convertido == IF ativo.tipo_ativo = "Acao EUA" /\ preco_atual_raw > 0
                           THEN preco_atual_raw * fx
                           ELSE preco_atual_raw
         IN  IF convertido = 0 THEN ativo.preco_medio ELSE RInt(convertido)

\* one element of the "ativos" list of the answer
ItemDaPosicao(ativo, cotacao, fx) ==
    LET preco_atual_brl == PrecoAtualBrl(ativo, cotacao, fx)
        valor_atual == RMul(ativo.quantidade, preco_atual_brl)
        custo_total == RMul(ativo.quantidade, ativo.preco_medio)
    IN  [ticker |-> ativo.ticker, tipo |-> ativo.tipo_ativo,
         quantidade |-> ativo.quantidade, preco_medio |-> ativo.preco_medio,
         preco_atual |-> preco_atual_brl, valor_atual |-> valor_atual,
         pl |-> RSub(valor_atual, custo_total)]

\* sum(item.valor_atual) over the items
RECURSIVE SomaValorAtual(_)
SomaValorAtual(itens) ==
    IF itens = <<>> THEN RZero
    ELSE RAdd(itens[1].valor_atual, SomaValorAtual(Tail(itens)))

calcular_posicao_conta_investimento(g, conta_id, cotacoes, fx) ==
    LET i == PrimeiroIndice([x \in DOMAIN g.contas |->
                 g.contas[x].id_conta = conta_id /\ g.contas[x].tipo = "ContaInvestimento"])
        conta == g.contas[i]
        itens == [x \in DOMAIN conta.ativos |->
                     ItemDaPosicao(conta.ativos[x], cotacoes[conta.ativos[x].ticker], fx)]
        total_valor_atual_ativos == SomaValorAtual(itens)
    IN  IF i = 0
        THEN [saldo_caixa |-> RZero, total_valor_atual_ativos |-> RZero,
              patrimonio_atualizado |-> RZero, ativos |-> <<>>]
        ELSE [saldo_caixa |-> RInt(conta.saldo_caixa),
              total_valor_atual_ativos |-> total_valor_atual_ativos,
              patrimonio_atualizado |->
                  RAdd(RInt(conta.saldo_caixa), total_valor_atual_ativos),
              ativos |-> itens]

-----------------------------------------------------------------------------
(* Categories and tags *)

\* str.strip() on the names in use
Strip(nome) ==
    CASE nome = " Pets " -> "Pets"
      [] nome = " " -> ""
      [] OTHER -> nome

adicionar_categoria(g, nome) ==
    LET limpo == Strip(nome)
    IN  IF limpo # "" /\ limpo \notin Range(g.categorias)
        THEN Retorno([g EXCEPT !.categorias = Append(@, limpo)], TRUE, <<>>)
        ELSE Retorno(g, TRUE, <<>>)

remover_categoria(g, nome) ==
    Retorno([g EXCEPT !.categorias = SelectSeq(@, LAMBDA c : c # nome)], TRUE, <<>>)

\* the tag names in use, in the order of str comparison
Alfabeto == <<"casa", "viagem">>

\* a < b on tag names
Menor(a, b) ==
    \E i, j \in DOMAIN Alfabeto : Alfabeto[i] = a /\ Alfabeto[j] = b /\ i < j

\* list.sort()
RECURSIVE Ordenada(_)
Ordenada(lista) ==
    IF lista = <<>> THEN <<>>
    ELSE LET resto == Ordenada(Tail(lista))
             antes == SelectSeq(resto, LAMBDA x : Menor(x, Head(lista)))
             depois == SelectSeq(resto, LAMBDA x : ~Menor(x, Head(lista)))
         IN  antes \o <<Head(lista)>> \o depois

adicionar_tag(g, nome_tag) ==
    LET limpo == Strip(nome_tag)
    IN  IF limpo # "" /\ limpo \notin Range(g.tags)
        THEN Retorno([g EXCEPT !.tags = Ordenada(Append(@, limpo))], TRUE, <<>>)
        ELSE Retorno(g, FALSE, <<>>)

\* list.remove(x): the first x goes
remover_tag(g, nome_tag) ==
    LET i == PrimeiroIndice([x \in DOMAIN g.tags |-> g.tags[x] = nome_tag])
    IN  IF i # 0
        THEN Retorno([g EXCEPT !.tags = SubSeq(@, 1, i - 1) \o SubSeq(@, i + 1, Len(@))],
                     TRUE, <<>>)
        ELSE Retorno(g, FALSE, <<>>)

-----------------------------------------------------------------------------
(* Persistence: para_dict, salvar_dados, carregar_dados.  A dict is a record;
   json.dump writes numbers, strings, null, lists and dicts with str keys,
   and json.load reads each of them back as it was written.  A date is
   written by isoformat() as a str, here the pieces of "YYYY-MM-DD". *)

\* date.isoformat()
isoformat(data) == <<ToString(data.ano), "-", Pad2(data.mes), "-", Pad2(data.dia)>>

\* the years a file can name
AnosLidos == 2020..2030

\* date.today() at the time of loading
Hoje == Data(2026, 6, 15)

\* date.fromisoformat(texto) raises nothing
FormatoIso(texto) ==
    /\ Len(texto) = 5 /\ texto[2] = "-" /\ texto[4] = "-"
    /\ \E ano \in AnosLidos, mes \in 1..12 :
           /\ ToString(ano) = texto[1] /\ Pad2(mes) = texto[3]
           /\ \E dia \in 1..DiasNoMes(ano, mes) : Pad2(dia) = texto[5]

\* date.fromisoformat(texto)
fromisoformat(texto) ==
    LET ano == CHOOSE a \in AnosLidos : ToString(a) = texto[1]
        mes == CHOOSE m \in 1..12 : Pad2(m) = texto[3]
        dia == CHOOSE d \in 1..31 : Pad2(d) = texto[5]
    IN  Data(ano, mes, dia)

\* parse_date_safe(d.get(chave), default): None and what fromisoformat
\* rejects give the default
parse_date_safe(d, chave, default) ==
    IF chave \notin DOMAIN d THEN default
    ELSE IF FormatoIso(d[chave]) THEN fromisoformat(d[chave])
    ELSE default

\* x or y on optional ids
Ou(x, y) == IF x = None THEN y ELSE x

Transacao_para_dict(t) ==
    [id_transacao |-> t.id_transacao, id_conta |-> t.id_conta,
     descricao |-> t.descricao, valor |-> t.valor, tipo |-> t.tipo,
     categoria |-> t.categoria]

Ativo_para_dict(a) ==
    [ticker |-> a.ticker, quantidade |-> a.quantidade, preco_medio |-> a.preco_medio,
     tipo_ativo |-> a.tipo_ativo]

ContaCorrente_para_dict(c) ==
    [tipo |-> "ContaCorrente", id_conta |-> c.id_conta, nome |-> c.nome,
     saldo |-> c.saldo, limite_cheque_especial |-> c.limite_cheque_especial]

ContaInvestimento_para_dict(c) ==
    [tipo |-> "ContaInvestimento", id_conta |-> c.id_conta, nome |-> c.nome,
     saldo_caixa |-> c.saldo_caixa,
     ativos |-> [x \in DOMAIN c.ativos |-> Ativo_para_dict(c.ativos[x])]]

Conta_para_dict(c) ==
    IF c.tipo = "ContaCorrente" THEN ContaCorrente_para_dict(c)
    ELSE ContaInvestimento_para_dict(c)

CartaoCredito_para_dict(c) ==
    [id_cartao |-> c.id_cartao, nome |-> c.nome, dia_fechamento |-> c.dia_fechamento,
     dia_vencimento |-> c.dia_vencimento,
     fechamentos_customizados |-> c.fechamentos_customizados]

CompraCartao_para_dict(c) ==
    [id_compra |-> c.id_compra, id_cartao |-> c.id_cartao, valor |-> c.valor,
     data_compra |-> isoformat(c.data_compra), total_parcelas |-> c.total_parcelas,
     parcela_atual |-> c.parcela_atual, id_compra_original |-> c.id_compra_original,
     id_fatura |-> c.id_fatura, data_compra_real |-> isoformat(c.data_compra_real)]

Fatura_para_dict(f) ==
    [id_fatura |-> f.id_fatura, id_cartao |-> f.id_cartao,
     data_fechamento |-> isoformat(f.data_fechamento),
     data_vencimento |-> isoformat(f.data_vencimento),
     valor_total |-> f.valor_total, status |-> f.status]

\* the file salvar_dados writes
salvar_dados(g) ==
    [existe |-> TRUE,
     contas |-> [x \in DOMAIN g.contas |-> Conta_para_dict(g.contas[x])],
     transacoes |-> [x \in DOMAIN g.transacoes |-> Transacao_para_dict(g.transacoes[x])],
     cartoes_credito |->
         [x \in DOMAIN g.cartoes_credito |-> CartaoCredito_para_dict(g.cartoes_credito[x])],
     compras_cartao |->
         [x \in DOMAIN g.compras_cartao |-> CompraCartao_para_dict(g.compras_cartao[x])],
     faturas |-> [x \in DOMAIN g.faturas |-> Fatura_para_dict(g.faturas[x])],
     categorias |-> g.categorias,
     tags |-> g.tags]

\* the account carregar_dados builds from the dict c
ContaLida(c) ==
    IF DictGet(c, "tipo", "ContaCorrente") = "ContaCorrente"
    THEN ContaCorrente(DictGet(c, "id_conta", None), DictGet(c, "nome", "Sem Nome"),
                       DictGet(c, "saldo", 0), DictGet(c, "limite_cheque_especial", 0))
    ELSE LET lidos == DictGet(c, "ativos", <<>>)
             ativos_lidos ==
                 [x \in DOMAIN lidos |->
                     Ativo(DictGet(lidos[x], "ticker", ""),
                           DictGet(lidos[x], "quantidade", RZero),
                           DictGet(lidos[x], "preco_medio", RZero),
                           DictGet(lidos[x], "tipo_ativo", "Outro"))]
         IN  ContaInvestimento(DictGet(c, "id_conta", None),
                               DictGet(c, "nome", "Sem Nome"),
                               DictGet(c, "saldo_caixa", 0), ativos_lidos)

\* the entry carregar_dados builds from the dict t
TransacaoLida(t) ==
    Transacao(DictGet(t, "id_transacao", None), DictGet(t, "id_conta", ""),
              DictGet(t, "descricao", <<>>), DictGet(t, "valor", 0),
              DictGet(t, "tipo", "Despesa"), DictGet(t, "categoria", "Outros"))

\* the card carregar_dados builds from the dict cc
CartaoLido(cc) ==
    [CartaoCredito(DictGet(cc, "id_cartao", None), DictGet(cc, "nome", "Cartao"),
                   DictGet(cc, "dia_fechamento", 28), DictGet(cc, "dia_vencimento", 10))
     EXCEPT !.fechamentos_customizados =
                DictGet(cc, "fechamentos_customizados", DictVazio)]

\* carregar_dados building every charge as one that is in no invoice
CompraLida_sem_fatura(c) ==
    LET data_venc == parse_date_safe(c, "data_compra", Hoje)
        data_real == parse_date_safe(c, "data_compra_real", data_venc)
        id_compra == DictGet(c, "id_compra", None)
    IN  [CompraCartao(id_compra, DictGet(c, "id_cartao", ""), DictGet(c, "valor", 0),
                      data_venc, DictGet(c, "total_parcelas", 1),
                      DictGet(c, "parcela_atual", 1),
                      Ou(DictGet(c, "id_compra_original", None), id_compra), data_real)
         EXCEPT !.id_fatura = None]

\* the charge carregar_dados builds from the dict c
CompraLida(c) ==
    LET data_venc == parse_date_safe(c, "data_compra", Hoje)
        data_real == parse_date_safe(c, "data_compra_real", data_venc)
        id_compra == DictGet(c, "id_compra", None)
    IN  [CompraCartao(id_compra, DictGet(c, "id_cartao", ""), DictGet(c, "valor", 0),
                      data_venc, DictGet(c, "total_parcelas", 1),
                      DictGet(c, "parcela_atual", 1),
                      Ou(DictGet(c, "id_compra_original", None), id_compra), data_real)
         EXCEPT !.id_fatura = DictGet(c, "id_fatura", None)]

\* the invoice carregar_dados builds from the dict f
FaturaLida(f) ==
    [Fatura(DictGet(f, "id_fatura", None), DictGet(f, "id_cartao", ""),
            parse_date_safe(f, "data_fechamento", Hoje),
            parse_date_safe(f, "data_vencimento", Hoje),
            DictGet(f, "valor_total", 0))
     EXCEPT !.status = DictGet(f, "status", "Fechada")]

\* carregar_dados on a manager g whose file is arq
carregar_dados(g, arq) ==
    IF ~arq.existe THEN g
    ELSE [g EXCEPT
             !.contas = [x \in DOMAIN arq.contas |-> ContaLida(arq.contas[x])],
             !.transacoes =
                 [x \in DOMAIN arq.transacoes |-> TransacaoLida(arq.transacoes[x])],
             !.cartoes_credito =
                 [x \in DOMAIN arq.cartoes_credito |-> CartaoLido(arq.cartoes_credito[x])],
             !.compras_cartao =
                 [x \in DOMAIN arq.compras_cartao |-> CompraLida(arq.compras_cartao[x])],
             !.faturas = [x \in DOMAIN arq.faturas |-> FaturaLida(arq.faturas[x])],
             !.categorias = IF arq.categorias # <<>> THEN arq.categorias ELSE @,
             !.tags = arq.tags]

\* GerenciadorContas(caminho_arquivo): the defaults, then carregar_dados;
\* uuid4 goes on from proximo
GerenciadorContas(arq, proximo) ==
    carregar_dados([GerenciadorVazio EXCEPT !.prox_id = proximo], arq)

-----------------------------------------------------------------------------
(* The manager as a state machine: one action per public method *)

G == [contas |-> contas, transacoes |-> transacoes,
      cartoes_credito |-> cartoes_credito, compras_cartao |-> compras_cartao,
      faturas |-> faturas, categorias |-> categorias, tags |-> tags,
      prox_id |-> prox_id]

\* no file at caminho_arquivo
SemArquivo == [existe |-> FALSE]

\* the threads that call the manager, and a thread that is in no call
Threads == {"t1", "t2"}
Ocioso == [pc |-> "ocioso", op |-> "", args |-> <<>>, id_conta |-> "", valor |-> 0,
           lido |-> 0]

\* The accounts and the card every run starts with: the manager after
\* adicionar_conta of a checking and of an investment account and
\* adicionar_cartao_credito of one card
BaseCom(dia_fechamento, dia_vencimento) ==
    adicionar_cartao_credito(
        adicionar_conta(
            adicionar_conta(GerenciadorVazio, ContaCorrente("c1", "Banco", 50, 50)),
            ContaInvestimento("i1", "Corretora", 300, <<>>)),
        CartaoCredito("k1", "Nubank", dia_fechamento, dia_vencimento))

Base == BaseCom(2, 10)

Comeca(g) ==
    /\ contas = g.contas
    /\ transacoes = g.transacoes
    /\ cartoes_credito = g.cartoes_credito
    /\ compras_cartao = g.compras_cartao
    /\ faturas = g.faturas
    /\ categorias = g.categorias
    /\ tags = g.tags
    /\ arquivo = SemArquivo
    /\ prox_id = g.prox_id
    /\ ult = [op |-> "inicio", args |-> <<>>, ok |-> TRUE, ret |-> <<>>, exc |-> FALSE]
    /\ ult2 = ult
    /\ ante = g
    /\ ante2 = g
    /\ det_compra = DictVazio
    /\ passos = 0
    /\ em_curso = [t \in Threads |-> Ocioso]

\* the call op(args) with outcome r, whatever it does to the file
Passo(op, args, r) ==
    /\ passos < MaxPassos
    /\ contas' = r.g.contas
    /\ transacoes' = r.g.transacoes
    /\ cartoes_credito' = r.g.cartoes_credito
    /\ compras_cartao' = r.g.compras_cartao
    /\ faturas' = r.g.faturas
    /\ categorias' = r.g.categorias
    /\ tags' = r.g.tags
    /\ prox_id' = r.g.prox_id
    /\ ult' = [op |-> op, args |-> args, ok |-> r.ok, ret |-> r.ret, exc |-> r.exc]
    /\ ult2' = ult
    /\ ante' = G
    /\ ante2' = ante
    /\ passos' = passos + 1
    /\ UNCHANGED em_curso

\* the call op(args) with outcome r, of a method that does not write the file
Chamada(op, args, r) ==
    /\ Passo(op, args, r)
    /\ UNCHANGED arquivo

RegistrarTransacao(id_conta, descricao, valor, tipo, categoria) ==
    /\ Chamada("registrar_transacao",
               [id_conta |-> id_conta, descricao |-> descricao, valor |-> valor,
                tipo |-> tipo, categoria |-> categoria],
               registrar_transacao(G, id_conta, descricao, valor, tipo, categoria))
    /\ UNCHANGED det_compra

RealizarTransferencia(id_origem, id_destino, valor) ==
    /\ Chamada("realizar_transferencia",
               [id_origem |-> id_origem, id_destino |-> id_destino, valor |-> valor],
               realizar_transferencia(G, id_origem, id_destino, valor))
    /\ UNCHANGED det_compra

ComprarAtivo(id_conta, ticker, quantidade, preco_unitario, tipo_ativo) ==
    LET r == comprar_ativo(G, id_conta, ticker, quantidade, preco_unitario, tipo_ativo)
        args == [id_conta |-> id_conta, ticker |-> ticker, quantidade |-> quantidade,
                 preco_unitario |-> preco_unitario, tipo_ativo |-> tipo_ativo]
    IN  /\ Chamada("comprar_ativo", args, r)
        /\ det_compra' = IF r.ok THEN DictSet(det_compra, r.ret[1], args) ELSE det_compra

VenderAtivo(id_conta, ticker, quantidade, preco_venda, data_venda) ==
    /\ \E lucro_formatado \in LucrosFormatados(G, id_conta, ticker, quantidade, preco_venda) :
          Chamada("vender_ativo",
                  [id_conta |-> id_conta, ticker |-> ticker, quantidade |-> quantidade,
                   preco_venda |-> preco_venda, data_venda |-> data_venda],
                  vender_ativo(G, id_conta, ticker, quantidade, preco_venda, data_venda,
                               lucro_formatado))
    /\ UNCHANGED det_compra

RemoverTransacao(id_transacao) ==
    /\ Chamada("remover_transacao", [id_transacao |-> id_transacao],
               remover_transacao(G, id_transacao))
    /\ UNCHANGED det_compra

EditarLimite(id_conta, novo) ==
    /\ Chamada("editar_limite", [id_conta |-> id_conta, novo |-> novo],
               editar_limite(G, id_conta, novo))
    /\ UNCHANGED det_compra

RegistrarCompraCartao(id_cartao, valor_total, data_compra, num_parcelas) ==
    /\ \E valor_parcela \in ValoresParcela(valor_total, num_parcelas) :
          Chamada("registrar_compra_cartao",
                  [id_cartao |-> id_cartao, valor_total |-> valor_total,
                   data_compra |-> data_compra, num_parcelas |-> num_parcelas],
                  registrar_compra_cartao(G, id_cartao, valor_total, data_compra,
                                          num_parcelas, valor_parcela))
    /\ UNCHANGED det_compra

FecharFatura(id_cartao, data_fechamento_real, data_vencimento_real) ==
    /\ Chamada("fechar_fatura",
               [id_cartao |-> id_cartao, data_fechamento_real |-> data_fechamento_real,
                data_vencimento_real |-> data_vencimento_real],
               fechar_fatura(G, id_cartao, data_fechamento_real, data_vencimento_real))
    /\ UNCHANGED det_compra

PagarFatura(id_fatura, id_conta_pagamento) ==
    /\ Chamada("pagar_fatura",
               [id_fatura |-> id_fatura, id_conta_pagamento |-> id_conta_pagamento],
               pagar_fatura(G, id_fatura, id_conta_pagamento))
    /\ UNCHANGED det_compra

ReabrirFatura(id_fatura) ==
    /\ Chamada("reabrir_fatura", [id_fatura |-> id_fatura], reabrir_fatura(G, id_fatura))
    /\ UNCHANGED det_compra

RemoverConta(id_conta) ==
    /\ Chamada("remover_conta", [id_conta |-> id_conta], remover_conta(G, id_conta))
    /\ UNCHANGED det_compra

RemoverCompraCartao(id_compra_original) ==
    /\ Chamada("remover_compra_cartao", [id_compra_original |-> id_compra_original],
               remover_compra_cartao(G, id_compra_original))
    /\ UNCHANGED det_compra

RemoverCartaoCredito(id_cartao) ==
    /\ Chamada("remover_cartao_credito", [id_cartao |-> id_cartao],
               remover_cartao_credito(G, id_cartao))
    /\ UNCHANGED det_compra

AdicionarCategoria(nome) ==
    /\ Chamada("adicionar_categoria", [nome |-> nome], adicionar_categoria(G, nome))
    /\ UNCHANGED det_compra

RemoverCategoria(nome) ==
    /\ Chamada("remover_categoria", [nome |-> nome], remover_categoria(G, nome))
    /\ UNCHANGED det_compra

AdicionarTag(nome_tag) ==
    /\ Chamada("adicionar_tag", [nome_tag |-> nome_tag], adicionar_tag(G, nome_tag))
    /\ UNCHANGED det_compra

RemoverTag(nome_tag) ==
    /\ Chamada("remover_tag", [nome_tag |-> nome_tag], remover_tag(G, nome_tag))
    /\ UNCHANGED det_compra

SalvarDados ==
    /\ Passo("salvar_dados", <<>>, Retorno(G, TRUE, <<>>))
    /\ arquivo' = salvar_dados(G)
    /\ UNCHANGED det_compra

\* the program starts again: a new GerenciadorContas on the same file
NovoGerenciador ==
    /\ Passo("carregar_dados", <<>>, Retorno(GerenciadorContas(arquivo, prox_id), TRUE, <<>>))
    /\ UNCHANGED <<arquivo, det_compra>>

\* a call of calcular_posicao_conta_investimento: ult.ret is its answer
CalcularPosicao(conta_id, cotacoes, fx) ==
    /\ Chamada("calcular_posicao_conta_investimento",
               [conta_id |-> conta_id, cotacoes |-> cotacoes, fx |-> fx],
               [g |-> G, ok |-> TRUE,
                ret |-> calcular_posicao_conta_investimento(G, conta_id, cotacoes, fx),
                exc |-> FALSE])
    /\ UNCHANGED det_compra

-----------------------------------------------------------------------------
(* The ledger of accounts and assets *)

Valores == {50, 300}
Quantidades == {10, 20}
Precos == {10, 20}

\* the sale dates a caller passes: one in the "%Y-%m-%d" format vender_ativo
\* parses, one in the day-first format the forms display
DatasVenda == {"2025-12-01", "01/12/2025"}

IdsTransacoes == {transacoes[k].id_transacao : k \in DOMAIN transacoes}

Init == Comeca(Base)

Next ==
    \/ \E id_conta \in {"c1", "i1"}, valor \in Valores, tipo \in {"Receita", "Despesa"} :
          RegistrarTransacao(id_conta, <<"Mercado">>, valor, tipo, "Alimentacao")
    \/ \E valor \in Valores :
          RegistrarTransacao("i1", <<"Compra", "de", "PETR4">>, valor, "Despesa",
                             "Investimentos")
    \/ \E id_origem, id_destino \in {"c1", "i1"} :
          RealizarTransferencia(id_origem, id_destino, 50)
    \/ \E quantidade \in Quantidades, preco_unitario \in Precos :
          ComprarAtivo("i1", "PETR4", quantidade, preco_unitario, "Acao")
    \/ \E data_venda \in DatasVenda : VenderAtivo("i1", "PETR4", 5, 18, data_venda)
    \/ \E id_transacao \in IdsTransacoes : RemoverTransacao(id_transacao)
    \/ \E novo \in {0, 50} : EditarLimite("c1", novo)

Spec == Init /\ [][Next]_vars

-----------------------------------------------------------------------------
(* The card ledger: purchases, closing, payment and reopening of invoices *)

MaxParcelas == 2

DatasCompra == {Data(2025, 11, 30), Data(2025, 12, 1), Data(2025, 12, 3)}
DatasFechamento == {Data(2025, 12, 2), Data(2025, 12, 5), Data(2026, 1, 2)}

\* the due dates offered for a closing date: the 10th of its month or of the next
DatasVencimento(data_fechamento) ==
    {Data(data_fechamento.ano, data_fechamento.mes, 10),
     MaisMeses(Data(data_fechamento.ano, data_fechamento.mes, 10), 1)}

IdsFaturas == {faturas[k].id_fatura : k \in DOMAIN faturas}

\* A first purchase, its invoice closed, and the invoice paid
ComCompra == registrar_compra_cartao(Base, "k1", 60, Data(2025, 11, 30), 1, 60).g
ComFatura == fechar_fatura(ComCompra, "k1", Data(2025, 12, 2), Data(2025, 12, 10)).g
ComFaturaPaga == pagar_fatura(ComFatura, ComFatura.faturas[1].id_fatura, "c1").g

InitCartao == \E g \in {Base, ComCompra, ComFatura, ComFaturaPaga} : Comeca(g)

NextCartao ==
    \/ \E data_compra \in DatasCompra, num_parcelas \in 1..MaxParcelas :
          RegistrarCompraCartao("k1", 60, data_compra, num_parcelas)
    \/ \E data_fechamento \in DatasFechamento :
          \E data_vencimento \in DatasVencimento(data_fechamento) :
              FecharFatura("k1", data_fechamento, data_vencimento)
    \/ \E id_fatura \in IdsFaturas : PagarFatura(id_fatura, "c1")
    \/ \E id_fatura \in IdsFaturas : ReabrirFatura(id_fatura)
    \/ RegistrarTransacao("c1", <<"Pagamento", "Fatura", "12/2025", "Nubank">>, 10,
                          "Despesa", "Cartao de Credito")
    \/ \E tipo \in {"Receita", "Despesa"} :
          RegistrarTransacao("c1", <<"Mercado">>, 50, tipo, "Alimentacao")
    \/ \E id_origem, id_destino \in {"c1", "i1"} :
          RealizarTransferencia(id_origem, id_destino, 50)
    \/ ComprarAtivo("i1", "PETR4", 10, 10, "Acao")
    \/ VenderAtivo("i1", "PETR4", 5, 18, "2025-12-01")
    \/ \E id_transacao \in IdsTransacoes : RemoverTransacao(id_transacao)

SpecCartao == InitCartao /\ [][NextCartao]_vars

-----------------------------------------------------------------------------
(* The billing cycle of a purchase, under the card's closing day and the
   closing days set for single months on the card's configuration form *)

\* "Adicionar Fechamento Customizado": the closing day of one month of a card
adicionar_fechamento_customizado(g, idx_cartao, ano_custom, mes_custom, dia_custom) ==
    LET chave == ChaveMes(ano_custom, mes_custom) IN
    Retorno([g EXCEPT !.cartoes_credito[idx_cartao].fechamentos_customizados =
                          DictSet(@, chave, dia_custom)],
            TRUE, <<>>)

\* the delete button beside a month's closing day
remover_fechamento_customizado(g, idx_cartao, chave_mes) ==
    Retorno([g EXCEPT !.cartoes_credito[idx_cartao].fechamentos_customizados =
                          DictDel(@, chave_mes)],
            TRUE, <<>>)

\* a step on the card's configuration: the call before it is not kept
Configuracao(op, args, r) ==
    /\ passos < MaxPassos
    /\ cartoes_credito' = r.g.cartoes_credito
    /\ ult' = [op |-> op, args |-> args, ok |-> r.ok, ret |-> r.ret, exc |-> r.exc]
    /\ ante' = G
    /\ passos' = passos + 1
    /\ UNCHANGED <<contas, transacoes, compras_cartao, faturas, categorias, tags,
                   arquivo, prox_id, ult2, ante2, det_compra, em_curso>>

AdicionarFechamentoCustomizado(idx_cartao, ano_custom, mes_custom, dia_custom) ==
    Configuracao("adicionar_fechamento_customizado",
                 [idx_cartao |-> idx_cartao, ano_custom |-> ano_custom,
                  mes_custom |-> mes_custom, dia_custom |-> dia_custom],
                 adicionar_fechamento_customizado(G, idx_cartao, ano_custom, mes_custom,
                                                  dia_custom))

RemoverFechamentoCustomizado(idx_cartao, chave_mes) ==
    Configuracao("remover_fechamento_customizado",
                 [idx_cartao |-> idx_cartao, chave_mes |-> chave_mes],
                 remover_fechamento_customizado(G, idx_cartao, chave_mes))

\* a call of calcular_ciclo_compra: it changes nothing, ult keeps its answer
CalcularCicloCompra(id_cartao, data_compra) ==
    /\ ult' = [op |-> "calcular_ciclo_compra",
               args |-> [id_cartao |-> id_cartao, data_compra |-> data_compra],
               ok |-> TRUE, ret |-> calcular_ciclo_compra(G, id_cartao, data_compra),
               exc |-> FALSE]
    /\ UNCHANGED <<contas, transacoes, cartoes_credito, compras_cartao, faturas,
                   categorias, tags, arquivo, prox_id, ante, ult2, ante2, det_compra,
                   passos, em_curso>>

DiasFechamento == {2, 15, 29, 31}
MesesCustomizados == {<<2025, 11>>, <<2024, 2>>}
DiasCustomizados == {1, 31}

DatasDoMes(ano, mes) == {Data(ano, mes, dia) : dia \in 1..DiasNoMes(ano, mes)}
DatasCiclo == DatasDoMes(2025, 11) \cup DatasDoMes(2025, 12) \cup DatasDoMes(2024, 2)

InitCiclo == \E dia_fechamento \in DiasFechamento : Comeca(BaseCom(dia_fechamento, 10))

NextCiclo ==
    \/ \E m \in MesesCustomizados, dia_custom \in DiasCustomizados :
          AdicionarFechamentoCustomizado(1, m[1], m[2], dia_custom)
    \/ \E chave_mes \in DOMAIN cartoes_credito[1].fechamentos_customizados :
          RemoverFechamentoCustomizado(1, chave_mes)
    \/ \E data_compra \in DatasCiclo : CalcularCicloCompra("k1", data_compra)

SpecCiclo == InitCiclo /\ [][NextCiclo]_vars

-----------------------------------------------------------------------------
(* Purchases in installments, on cards of several closing and due days *)

DiasVencimento == {10, 31}
DatasCompraParcelada ==
    {Data(2025, 11, 30), Data(2025, 12, 1), Data(2025, 12, 3), Data(2025, 12, 15),
     Data(2026, 1, 31)}

InitParcelas ==
    \E dia_fechamento \in {2, 28}, dia_vencimento \in DiasVencimento :
        Comeca(BaseCom(dia_fechamento, dia_vencimento))

NextParcelas ==
    \/ \E data_compra \in DatasCompraParcelada, num_parcelas \in 1..MaxParcelas :
          RegistrarCompraCartao("k1", 60, data_compra, num_parcelas)
    \/ \E dia_custom \in {1, 15} : AdicionarFechamentoCustomizado(1, 2025, 12, dia_custom)

SpecParcelas == InitParcelas /\ [][NextParcelas]_vars

-----------------------------------------------------------------------------
(* Invoices of two cards: closing, payment and reopening, with the calls
   that must fail (unknown card, invoice or account, investment account,
   balance and limit below the invoice total) *)

IdDesconhecido == 99

\* a second card, closing on the 5th and due on the 15th
DoisCartoes == adicionar_cartao_credito(Base, CartaoCredito("k2", "Inter", 5, 15))

\* one purchase on each card, both in the December cycle
ComCompras ==
    registrar_compra_cartao(
        registrar_compra_cartao(DoisCartoes, "k1", 60, Data(2025, 11, 30), 1, 60).g,
        "k2", 60, Data(2025, 12, 3), 1, 60).g

\* the invoice of the first card closed, and then paid
ComFechada == fechar_fatura(ComCompras, "k1", Data(2025, 12, 2), Data(2025, 12, 10)).g
ComPaga == pagar_fatura(ComFechada, ComFechada.faturas[1].id_fatura, "c1").g

InitFaturas == \E g \in {ComCompras, ComFechada, ComPaga} : Comeca(g)

NextFaturas ==
    \/ \E id_cartao \in {"k1", "k2"}, num_parcelas \in 1..MaxParcelas :
          RegistrarCompraCartao(id_cartao, 60, Data(2025, 11, 30), num_parcelas)
    \/ \E id_cartao \in {"k1", "k2", "zz"}, data_fechamento \in DatasFechamento :
          FecharFatura(id_cartao, data_fechamento,
                       Data(data_fechamento.ano, data_fechamento.mes, 10))
    \/ \E id_fatura \in IdsFaturas \cup {IdDesconhecido},
           id_conta \in {"c1", "i1", "zz"} :
          PagarFatura(id_fatura, id_conta)
    \/ \E id_fatura \in IdsFaturas \cup {IdDesconhecido} : ReabrirFatura(id_fatura)

SpecFaturas == InitFaturas /\ [][NextFaturas]_vars

-----------------------------------------------------------------------------
(* Specification SpecEstados: every operation on cards, charges and invoices *)

IdsComprasOriginais == {compras_cartao[k].id_compra_original : k \in DOMAIN compras_cartao}

InitEstados == \E g \in {ComCompras, ComFechada, ComPaga} : Comeca(g)

NextEstados ==
    \/ \E id_cartao \in {"k1", "k2"}, num_parcelas \in 1..MaxParcelas :
          RegistrarCompraCartao(id_cartao, 60, Data(2025, 11, 30), num_parcelas)
    \/ \E id_compra_original \in IdsComprasOriginais \cup {IdDesconhecido} :
          RemoverCompraCartao(id_compra_original)
    \/ \E id_cartao \in {"k1", "k2"}, data_fechamento \in DatasFechamento :
          FecharFatura(id_cartao, data_fechamento,
                       Data(data_fechamento.ano, data_fechamento.mes, 10))
    \/ \E id_fatura \in IdsFaturas \cup {IdDesconhecido}, id_conta \in {"c1", "i1"} :
          PagarFatura(id_fatura, id_conta)
    \/ \E id_fatura \in IdsFaturas \cup {IdDesconhecido} : ReabrirFatura(id_fatura)
    \/ \E id_cartao \in {"k1", "k2", "zz"} : RemoverCartaoCredito(id_cartao)

SpecEstados == InitEstados /\ [][NextEstados]_vars

-----------------------------------------------------------------------------
(* Specification SpecAtivos: buying, selling and reversing holdings, with one
   ticker held under two asset classes *)

QuantidadesVenda == {5, 10, 30}

\* The investment account funded with 1000, then holding PETR4 as a stock,
\* then holding it as a fund share as well
BaseAtivos == registrar_transacao(Base, "i1", <<"Aporte">>, 700, "Receita", "Aporte").g
ComAcao == comprar_ativo(BaseAtivos, "i1", "PETR4", 10, 10, "Acao").g
ComDuasClasses == comprar_ativo(ComAcao, "i1", "PETR4", 10, 20, "FII").g

InitAtivos == \E g \in {BaseAtivos, ComAcao, ComDuasClasses} : Comeca(g)

NextAtivos ==
    \/ \E quantidade \in Quantidades, preco_unitario \in Precos,
           tipo_ativo \in {"Acao", "FII"} :
          ComprarAtivo("i1", "PETR4", quantidade, preco_unitario, tipo_ativo)
    \/ \E id_conta \in {"i1", "c1"} : ComprarAtivo(id_conta, "petr4", 10, 10, "Acao")
    \/ \E quantidade \in QuantidadesVenda, data_venda \in DatasVenda :
          VenderAtivo("i1", "PETR4", quantidade, 18, data_venda)
    \/ \E id_conta \in {"c1", "zz"} : VenderAtivo(id_conta, "PETR4", 5, 18, "2025-12-01")
    \/ \E ticker \in {"VALE3", "petr4"} : VenderAtivo("i1", ticker, 5, 18, "2025-12-01")
    \/ \E id_transacao \in IdsTransacoes : RemoverTransacao(id_transacao)

SpecAtivos == InitAtivos /\ [][NextAtivos]_vars

-----------------------------------------------------------------------------
(* Specification SpecEntradas: the amount-taking methods called with
   amounts, quantities and prices that are zero or negative *)

ValoresInvalidos == {-50, 0}

InitEntradas == Comeca(Base)

NextEntradas ==
    \/ \E id_conta \in {"c1", "i1"}, valor \in ValoresInvalidos :
          RegistrarTransacao(id_conta, <<"Mercado">>, valor, "Despesa", "Alimentacao")
    \/ \E id_origem, id_destino \in {"c1", "i1"}, valor \in ValoresInvalidos :
          /\ id_origem # id_destino
          /\ RealizarTransferencia(id_origem, id_destino, valor)
    \/ \E quantidade \in {-5, 0, 10} : ComprarAtivo("i1", "PETR4", quantidade, 10, "Acao")
    \/ ComprarAtivo("i1", "PETR4", 10, 0, "Acao")
    \/ \E quantidade \in {-5, 0, 5} :
          VenderAtivo("i1", "PETR4", quantidade, 18, "2025-12-01")
    \/ VenderAtivo("i1", "PETR4", 5, 0, "2025-12-01")
    \/ \E id_transacao \in IdsTransacoes : RemoverTransacao(id_transacao)
    \/ \E num_parcelas \in 1..MaxParcelas :
          RegistrarCompraCartao("k1", -60, Data(2025, 11, 30), num_parcelas)
    \/ RegistrarCompraCartao("k1", 0, Data(2025, 11, 30), 1)

SpecEntradas == InitEntradas /\ [][NextEntradas]_vars

-----------------------------------------------------------------------------
(* Specification SpecIds: every method that takes an id, called with ids
   that exist and with ids that do not *)

\* Both accounts carrying entries, and the card an invoice
ComTransferencia == realizar_transferencia(Base, "c1", "i1", 50).g
ComFaturaFechada ==
    fechar_fatura(
        registrar_compra_cartao(ComTransferencia, "k1", 40, Data(2025, 11, 30), 1, 40).g,
        "k1", Data(2025, 12, 2), Data(2025, 12, 10)).g

InitIds == Comeca(ComFaturaFechada)

NextIds ==
    \/ RegistrarTransacao("zz", <<"Mercado">>, 50, "Despesa", "Alimentacao")
    \/ \E par \in {<<"c1", "i1">>, <<"c1", "zz">>, <<"zz", "c1">>} :
          RealizarTransferencia(par[1], par[2], 50)
    \/ \E id_conta \in {"i1", "zz"} : ComprarAtivo(id_conta, "PETR4", 10, 10, "Acao")
    \/ VenderAtivo("zz", "PETR4", 5, 18, "2025-12-01")
    \/ \E id_transacao \in IdsTransacoes \cup {IdDesconhecido} :
          RemoverTransacao(id_transacao)
    \/ \E id_conta \in {"c1", "i1", "zz"} : RemoverConta(id_conta)
    \/ \E id_cartao \in {"k1", "zz"} :
          RegistrarCompraCartao(id_cartao, 40, Data(2025, 11, 30), 1)
    \/ \E id_cartao \in {"k1", "zz"} :
          FecharFatura(id_cartao, Data(2025, 12, 2), Data(2025, 12, 10))
    \/ \E id_fatura \in IdsFaturas \cup {IdDesconhecido}, id_conta \in {"c1", "zz"} :
          PagarFatura(id_fatura, id_conta)
    \/ \E id_fatura \in IdsFaturas \cup {IdDesconhecido} : ReabrirFatura(id_fatura)
    \/ \E id_cartao \in {"k1", "zz"} : RemoverCartaoCredito(id_cartao)

SpecIds == InitIds /\ [][NextIds]_vars

-----------------------------------------------------------------------------
(* Specification SpecContas: three accounts, with entries, transfers and
   removals of accounts *)

TresContas == adicionar_conta(Base, ContaCorrente("c2", "Reserva", 300, 0))

InitContas == Comeca(TresContas)

NextContas ==
    \/ \E id_conta \in {"c1", "c2", "i1"}, tipo \in {"Receita", "Despesa"} :
          RegistrarTransacao(id_conta, <<"Mercado">>, 50, tipo, "Alimentacao")
    \/ \E id_origem, id_destino \in {"c1", "c2", "i1"}, valor \in Valores :
          RealizarTransferencia(id_origem, id_destino, valor)
    \/ \E id_conta \in {"c1", "c2", "i1", "zz"} : RemoverConta(id_conta)

SpecContas == InitContas /\ [][NextContas]_vars

-----------------------------------------------------------------------------
(* Specification SpecPersistencia: the ledger, its categories and tags,
   saved to the file and loaded by a new manager *)

\* remover_categoria of each of the names in turn
RECURSIVE SemCategorias(_, _)
SemCategorias(g, nomes) ==
    IF nomes = <<>> THEN g
    ELSE SemCategorias(remover_categoria(g, Head(nomes)).g, Tail(nomes))

\* Two purchases of one asset, a purchase in two instalments on the card, its
\* invoice closed three days after the card's closing day and then paid, a
\* tag, and at last every category but one removed
Carteira ==
    comprar_ativo(comprar_ativo(Base, "i1", "petr4", 10, 10, "Acao").g,
                  "i1", "PETR4", 5, 20, "Acao").g
Parcelada == registrar_compra_cartao(Carteira, "k1", 60, Data(2025, 11, 30), 2, 30).g
FechadaDepois == fechar_fatura(Parcelada, "k1", Data(2025, 12, 5), Data(2025, 12, 10)).g
PagaDepois == pagar_fatura(FechadaDepois, FechadaDepois.faturas[1].id_fatura, "c1").g
Etiquetada == adicionar_tag(PagaDepois, "viagem").g
SoOutros == SemCategorias(Etiquetada, SubSeq(CategoriasPadrao, 1, 8))

InitPersistencia == \E g \in {FechadaDepois, Etiquetada, SoOutros} : Comeca(g)

NextPersistencia ==
    \/ RegistrarTransacao("c1", <<"Mercado">>, 50, "Despesa", "Alimentacao")
    \/ ComprarAtivo("i1", "PETR4", 10, 10, "FII")
    \/ \E num_parcelas \in 1..MaxParcelas :
          RegistrarCompraCartao("k1", 60, Data(2025, 12, 3), num_parcelas)
    \/ FecharFatura("k1", Data(2026, 1, 2), Data(2026, 1, 10))
    \/ \E id_fatura \in IdsFaturas : PagarFatura(id_fatura, "c1")
    \/ \E id_fatura \in IdsFaturas : ReabrirFatura(id_fatura)
    \/ \E nome \in {" Pets ", "Outros"} : AdicionarCategoria(nome)
    \/ \E nome \in {"Outros", "Lazer"} : RemoverCategoria(nome)
    \/ \E nome_tag \in {"casa", "viagem"} : AdicionarTag(nome_tag)
    \/ RemoverTag("viagem")
    \/ SalvarDados
    \/ NovoGerenciador

SpecPersistencia == InitPersistencia /\ [][NextPersistencia]_vars

-----------------------------------------------------------------------------
(* Specification SpecPosicao: holdings of three classes bought, sold and
   valued while the price services answer or fail *)

TickersCotados == {"PETR4", "BTC", "AAPL"}

\* no answer from the price service
SemCotacao == [ok |-> FALSE, preco |-> 0]

\* what the price services answer when the lookups of falhas fail
Cotacoes(falhas) ==
    [t \in TickersCotados |-> IF t \in falhas THEN SemCotacao ELSE [ok |-> TRUE, preco |-> 18]]

ComCripto == comprar_ativo(ComAcao, "i1", "btc", 10, 20, "Cripto").g

InitPosicao == \E g \in {ComAcao, ComCripto} : Comeca(g)

NextPosicao ==
    \/ \E par \in {<<"PETR4", "Acao">>, <<"BTC", "Cripto">>, <<"AAPL", "Acao EUA">>} :
          ComprarAtivo("i1", par[1], 10, 20, par[2])
    \/ VenderAtivo("i1", "PETR4", 5, 18, "2025-12-01")
    \/ \E conta_id \in {"i1", "c1"}, falhas \in SUBSET TickersCotados :
          CalcularPosicao(conta_id, Cotacoes(falhas), 5)

SpecPosicao == InitPosicao /\ [][NextPosicao]_vars

-----------------------------------------------------------------------------
(* Specification SpecRateio: purchases whose total does not divide by the
   number of installments, and the invoices closed over them *)

\* one centavo, an odd number of centavos, and one real
ValoresRateados == {1, 61, 100}

InitRateio == Comeca(Base)

NextRateio ==
    \/ \E valor_total \in ValoresRateados, num_parcelas \in 1..(MaxParcelas + 1) :
          RegistrarCompraCartao("k1", valor_total, Data(2025, 11, 30), num_parcelas)
    \/ \E data_fechamento \in {Data(2025, 12, 2), Data(2026, 1, 2)} :
          FecharFatura("k1", data_fechamento,
                       Data(data_fechamento.ano, data_fechamento.mes, 10))

SpecRateio == InitRateio /\ [][NextRateio]_vars

-----------------------------------------------------------------------------
(* Balances *)

EhCorrente(conta) == conta.tipo = "ContaCorrente"
EhInvestimento(conta) == conta.tipo = "ContaInvestimento"

\* the cash balance of an account of either kind
SaldoDe(conta) == IF EhCorrente(conta) THEN conta.saldo ELSE conta.saldo_caixa

\* C1: every checking account has saldo >= -limite_cheque_especial, in every
\* state the ledger operations reach.
C1_SaldoDentroDoLimite ==
    \A k \in DOMAIN contas :
        EhCorrente(contas[k]) => contas[k].saldo >= -contas[k].limite_cheque_especial

\* C2: every investment account has saldo_caixa >= 0, in every state the
\* ledger operations reach.
C2_CaixaNaoNegativo ==
    \A k \in DOMAIN contas :
        EhInvestimento(contas[k]) => contas[k].saldo_caixa >= 0

\* the account with this id in manager g
ContaDe(g, id_conta) == g.contas[buscar_conta_por_id(g, id_conta)]

\* the balance an account had when it was registered
SaldoInicial(id_conta) == SaldoDe(ContaDe(Base, id_conta))

\* the sum of the entries of an account, Receita counted +, Despesa -
RECURSIVE SomaAssinada(_, _)
SomaAssinada(lancamentos, id_conta) ==
    IF lancamentos = <<>> THEN 0
    ELSE LET t == Head(lancamentos)
             parcela == IF t.id_conta # id_conta THEN 0
                        ELSE IF t.tipo = "Receita" THEN t.valor
                        ELSE IF t.tipo = "Despesa" THEN -t.valor
                        ELSE 0
         IN  parcela + SomaAssinada(Tail(lancamentos), id_conta)

\* C3: for every account, the signed sum of its entries equals its current
\* cash balance minus the balance it was registered with.
C3_LancamentosExplicamSaldo ==
    \A k \in DOMAIN contas :
        SomaAssinada(transacoes, contas[k].id_conta)
            = SaldoDe(contas[k]) - SaldoInicial(contas[k].id_conta)

-----------------------------------------------------------------------------
(* Invoices: closing, payment, reopening *)

\* the last two calls were a successful pagar_fatura and then reabrir_fatura
\* of the same invoice
PagaEReaberta ==
    /\ ult2.op = "pagar_fatura"
    /\ ult2.ok
    /\ ult.op = "reabrir_fatura"
    /\ ult.args.id_fatura = ult2.args.id_fatura

\* C4: after fechar_fatura, a successful pagar_fatura from account A and then
\* reabrir_fatura, A's balance is what it was before the payment and every
\* charge of the invoice is Open again.
C4_ReabrirRestauraSaldo ==
    PagaEReaberta =>
        /\ SaldoDe(ContaDe(G, ult2.args.id_conta_pagamento))
               = SaldoDe(ContaDe(ante2, ult2.args.id_conta_pagamento))
        /\ \A k \in DOMAIN ante.compras_cartao :
               ante.compras_cartao[k].id_fatura = ult.args.id_fatura
                   => compras_cartao[k].id_fatura = None

\* C5: reabrir_fatura of a Paid invoice removes exactly the entry pagar_fatura
\* posted for it, and no other.
C5_ReabrirRemoveOPagamento ==
    PagaEReaberta =>
        transacoes = SelectSeq(ante.transacoes,
                               LAMBDA t : t.id_transacao # ult2.ret[1])

-----------------------------------------------------------------------------
(* Reversal of entries *)

\* the quantity account id_conta of manager g holds of (ticker, tipo_ativo),
\* zero when it holds none
QuantidadeEmCarteira(g, id_conta, ticker, tipo_ativo) ==
    LET ativos == ContaDe(g, id_conta).ativos
        k == PrimeiroIndice([x \in DOMAIN ativos |->
                 ativos[x].ticker = Upper(ticker) /\ ativos[x].tipo_ativo = tipo_ativo])
    IN  IF k = 0 THEN RZero ELSE ativos[k].quantidade

\* the last call was remover_transacao of a purchase entry that was still in
\* the ledger and whose quantity the holding no longer covers
EstornoSemQuantidade ==
    /\ ult.op = "remover_transacao"
    /\ ult.args.id_transacao \in DOMAIN det_compra
    /\ \E k \in DOMAIN ante.transacoes :
           ante.transacoes[k].id_transacao = ult.args.id_transacao
    /\ LET compra == det_compra[ult.args.id_transacao]
       IN  RLt(QuantidadeEmCarteira(ante, compra.id_conta, compra.ticker,
                                    compra.tipo_ativo),
               RInt(compra.quantidade))

\* C6: remover_transacao of a purchase entry whose quantity exceeds what the
\* holding still has fails and leaves cash, holdings and entries as they were.
C6_EstornoSemQuantidadeFalha ==
    EstornoSemQuantidade => ~ult.ok /\ G = ante

\* the last two calls were a successful comprar_ativo and then
\* remover_transacao of the entry it posted
CompraEstornada ==
    /\ ult2.op = "comprar_ativo"
    /\ ult2.ok
    /\ ult.op = "remover_transacao"
    /\ ult.args.id_transacao = ult2.ret[1]

\* C7: comprar_ativo followed at once by remover_transacao of its entry gives
\* back the holding (quantity and average cost, or no holding) and the cash
\* the account had before the purchase.
C7_CompraEstornadaRestaura ==
    CompraEstornada =>
        LET antes == ContaDe(ante2, ult2.args.id_conta)
            agora == ContaDe(G, ult2.args.id_conta)
        IN  agora.ativos = antes.ativos /\ agora.saldo_caixa = antes.saldo_caixa

\* the last two calls were a successful registrar_transacao of a Receita or
\* Despesa of positive amount and then remover_transacao of the entry it made
LancamentoRemovido ==
    /\ ult2.op = "registrar_transacao"
    /\ ult2.ok
    /\ ult2.args.tipo \in {"Receita", "Despesa"}
    /\ ult2.args.valor > 0
    /\ ult.op = "remover_transacao"
    /\ ult.args.id_transacao = ult2.ret[1]

-----------------------------------------------------------------------------
(* Billing cycles and installments *)

\* the key "YYYY-MM" of the months the purchases fall in
ChaveDoMes(ano, mes) ==
    CASE <<ano, mes>> = <<2025, 11>> -> "2025-11"
      [] <<ano, mes>> = <<2025, 12>> -> "2025-12"
      [] <<ano, mes>> = <<2024, 2>> -> "2024-02"

\* the length of those months
DiasDoMes(ano, mes) ==
    CASE <<ano, mes>> = <<2025, 11>> -> 30
      [] <<ano, mes>> = <<2025, 12>> -> 31
      [] <<ano, mes>> = <<2024, 2>> -> 29

\* the closing day in force for (ano, mes): the day set for that month if
\* there is one, else the card's, and never past the end of the month
FechamentoEfetivo(cartao, ano, mes) ==
    LET chave == ChaveDoMes(ano, mes)
        dia == IF chave \in DOMAIN cartao.fechamentos_customizados
               THEN cartao.fechamentos_customizados[chave]
               ELSE cartao.dia_fechamento
    IN  IF dia > DiasDoMes(ano, mes) THEN DiasDoMes(ano, mes) ELSE dia

\* C9: calcular_ciclo_compra(card, d) is the month after d's (December rolling
\* into January of the next year) when d.day is greater than the effective
\* closing day of d's month, and d's own month otherwise; with dia_fechamento
\* 2 and no day set for the month, Nov 30 and Dec 1 both give December.
C9_CicloDaCompra ==
    ult.op = "calcular_ciclo_compra" =>
        LET d == ult.args.data_compra
            cartao == cartoes_credito[1]
            efetivo == FechamentoEfetivo(cartao, d.ano, d.mes)
        IN  /\ d.dia > efetivo
                => ult.ret = IF d.mes = 12 THEN <<d.ano + 1, 1>>
                                          ELSE <<d.ano, d.mes + 1>>
            /\ d.dia <= efetivo => ult.ret = <<d.ano, d.mes>>
            /\ ( /\ cartao.dia_fechamento = 2
                 /\ cartao.fechamentos_customizados = DictVazio
                 /\ d \in {Data(2025, 11, 30), Data(2025, 12, 1)} )
                => ult.ret = <<2025, 12>>

\* C9 witness: February 2024 has closing day 31 set, on a card that closes on
\* the 29th or earlier, and a purchase on its last day, the 29th, stays in
\* February.
C9_Witness ==
    /\ ult.op = "calcular_ciclo_compra"
    /\ ult.args.data_compra = Data(2024, 2, 29)
    /\ "2024-02" \in DOMAIN cartoes_credito[1].fechamentos_customizados
    /\ cartoes_credito[1].fechamentos_customizados["2024-02"] = 31
    /\ cartoes_credito[1].dia_fechamento < 29
    /\ ult.ret = <<2024, 2>>

\* the last call was a successful registrar_compra_cartao
CompraRegistrada == ult.op = "registrar_compra_cartao" /\ ult.ok

\* C10: registrar_compra_cartao with num_parcelas = n >= 1 on an existing card
\* appends exactly n charges, all Open, all with one id_compra_original,
\* numbered 1..n of n; the charge of index i (from 0) is dated in the cycle
\* calcular_ciclo_compra gives for the purchase date plus i months, on day
\* min(dia_vencimento, days in that month).
C10_ParcelasDaCompra ==
    CompraRegistrada =>
        LET n == ult.args.num_parcelas
            antes == Len(ante.compras_cartao)
            cartao == ante.cartoes_credito[buscar_cartao_por_id(ante, ult.args.id_cartao)]
        IN  /\ Len(compras_cartao) = antes + n
            /\ SubSeq(compras_cartao, 1, antes) = ante.compras_cartao
            /\ \A i \in 0..(n - 1) :
                   LET c == compras_cartao[antes + 1 + i]
                       ciclo == calcular_ciclo_compra(ante, ult.args.id_cartao,
                                    MaisMeses(ult.args.data_compra, i))
                       dia == IF cartao.dia_vencimento <= DiasNoMes(ciclo[1], ciclo[2])
                              THEN cartao.dia_vencimento
                              ELSE DiasNoMes(ciclo[1], ciclo[2])
                   IN  /\ c.id_cartao = ult.args.id_cartao
                       /\ c.id_fatura = None
                       /\ c.id_compra_original
                              = compras_cartao[antes + 1].id_compra_original
                       /\ c.parcela_atual = i + 1
                       /\ c.total_parcelas = n
                       /\ c.data_compra = Data(ciclo[1], ciclo[2], dia)

\* C10 witness: a purchase of 31 January in two installments on a card that
\* closes on the 28th and is due on the 31st; both charges fall in February,
\* whose last day is the 28th.
C10_Witness ==
    /\ CompraRegistrada
    /\ ult.args.num_parcelas = 2
    /\ ult.args.data_compra = Data(2026, 1, 31)
    /\ cartoes_credito[1].dia_vencimento = 31
    /\ Len(compras_cartao) >= 2
    /\ compras_cartao[Len(compras_cartao) - 1].data_compra = Data(2026, 2, 28)
    /\ compras_cartao[Len(compras_cartao)].data_compra = Data(2026, 2, 28)
    /\ compras_cartao[Len(compras_cartao)].parcela_atual = 2

-----------------------------------------------------------------------------
(* Closing an invoice *)

\* the last call was fechar_fatura
Fechamento == ult.op = "fechar_fatura"

\* charge c was, before the call, an Open charge of the card in the cycle of
\* the closing date
NoCicloFechado(c) ==
    /\ c.id_cartao = ult.args.id_cartao
    /\ c.id_fatura = None
    /\ c.data_compra.ano = ult.args.data_fechamento_real.ano
    /\ c.data_compra.mes = ult.args.data_fechamento_real.mes

\* the charges fechar_fatura had to gather, as indices of the list before it
IndicesDoCiclo == {k \in DOMAIN ante.compras_cartao : NoCicloFechado(ante.compras_cartao[k])}

\* the sum of the amounts of the charges of these indices
RECURSIVE SomaDosIndices(_, _)
SomaDosIndices(compras, indices) ==
    IF indices = {} THEN 0
    ELSE LET k == CHOOSE x \in indices : TRUE
         IN  compras[k].valor + SomaDosIndices(compras, indices \ {k})

\* C11: fechar_fatura links to one new invoice of status Fechada exactly the
\* Open charges of the card whose cycle is the closing date's (year, month),
\* totals their amounts and leaves the id_fatura of every other charge as
\* it was; with no such charge it returns None and changes nothing.
C11_FechaOCiclo ==
    Fechamento =>
        IF IndicesDoCiclo = {}
        THEN ~ult.ok /\ G = ante
        ELSE /\ ult.ok
             /\ Len(faturas) = Len(ante.faturas) + 1
             /\ SubSeq(faturas, 1, Len(ante.faturas)) = ante.faturas
             /\ LET nova == faturas[Len(faturas)]
                IN  /\ nova.status = "Fechada"
                    /\ nova.id_cartao = ult.args.id_cartao
                    /\ nova.id_fatura # None
                    /\ \A f \in DOMAIN ante.faturas :
                           ante.faturas[f].id_fatura # nova.id_fatura
                    /\ nova.valor_total = SomaDosIndices(ante.compras_cartao, IndicesDoCiclo)
                    /\ Len(compras_cartao) = Len(ante.compras_cartao)
                    /\ \A k \in DOMAIN ante.compras_cartao :
                           compras_cartao[k].id_fatura =
                               IF k \in IndicesDoCiclo THEN nova.id_fatura
                               ELSE ante.compras_cartao[k].id_fatura

\* C11 witness: an invoice is closed for one card while the other card has an
\* Open charge in the same month and the card itself has a charge in a later
\* cycle; both stay Open.
C11_Witness ==
    /\ Fechamento
    /\ ult.ok
    /\ \E k \in DOMAIN compras_cartao :
           /\ compras_cartao[k].id_cartao # ult.args.id_cartao
           /\ compras_cartao[k].id_fatura = None
           /\ compras_cartao[k].data_compra.mes = ult.args.data_fechamento_real.mes
    /\ \E k \in DOMAIN compras_cartao :
           /\ compras_cartao[k].id_cartao = ult.args.id_cartao
           /\ compras_cartao[k].id_fatura = None
           /\ compras_cartao[k].data_compra.mes # ult.args.data_fechamento_real.mes

\* the card of id id_cartao in manager g (there is one)
CartaoDe(g, id_cartao) ==
    g.cartoes_credito[CHOOSE i \in DOMAIN g.cartoes_credito :
                          g.cartoes_credito[i].id_cartao = id_cartao]

\* the key "YYYY-MM" of the months invoices are closed in
ChaveDoFechamento(data) ==
    CASE <<data.ano, data.mes>> = <<2025, 12>> -> "2025-12"
      [] <<data.ano, data.mes>> = <<2026, 1>> -> "2026-01"

\* the months-to-closing-day table of every card, by card id
Customizados(g) ==
    [i \in DOMAIN g.cartoes_credito |->
        <<g.cartoes_credito[i].id_cartao, g.cartoes_credito[i].fechamentos_customizados>>]

\* C12: a fechar_fatura call that creates an invoice writes
\* fechamentos_customizados["YYYY-MM" of the closing date] = its day on the
\* card exactly when that day differs from the card's dia_fechamento, and
\* writes nothing else; a call that returns None leaves every card's table
\* as it was.
C12_FechamentoCustomizado ==
    Fechamento =>
        IF ~ult.ok
        THEN Customizados(G) = Customizados(ante)
        ELSE LET data == ult.args.data_fechamento_real
                 antes == CartaoDe(ante, ult.args.id_cartao)
                 depois == CartaoDe(G, ult.args.id_cartao)
             IN  /\ \A i \in DOMAIN cartoes_credito :
                        cartoes_credito[i].id_cartao # ult.args.id_cartao =>
                            cartoes_credito[i] = ante.cartoes_credito[i]
                 /\ Len(cartoes_credito) = Len(ante.cartoes_credito)
                 /\ IF data.dia # antes.dia_fechamento
                    THEN /\ DOMAIN depois.fechamentos_customizados =
                                DOMAIN antes.fechamentos_customizados
                                    \cup {ChaveDoFechamento(data)}
                         /\ depois.fechamentos_customizados[ChaveDoFechamento(data)] = data.dia
                         /\ \A chave \in DOMAIN antes.fechamentos_customizados :
                                chave # ChaveDoFechamento(data) =>
                                    depois.fechamentos_customizados[chave] =
                                        antes.fechamentos_customizados[chave]
                    ELSE depois.fechamentos_customizados = antes.fechamentos_customizados

\* C12 witness: an invoice is closed on a day other than the card's closing
\* day, in a month the card had no entry for, while the card already holds
\* the entry of another month.
C12_Witness ==
    /\ Fechamento
    /\ ult.ok
    /\ ult.args.data_fechamento_real.dia # CartaoDe(ante, ult.args.id_cartao).dia_fechamento
    /\ ChaveDoFechamento(ult.args.data_fechamento_real) \notin
           DOMAIN CartaoDe(ante, ult.args.id_cartao).fechamentos_customizados
    /\ CartaoDe(ante, ult.args.id_cartao).fechamentos_customizados # DictVazio
    /\ CartaoDe(G, ult.args.id_cartao).fechamentos_customizados[
           ChaveDoFechamento(ult.args.data_fechamento_real)] =
               ult.args.data_fechamento_real.dia

-----------------------------------------------------------------------------
(* Paying an invoice *)

\* the last call was pagar_fatura
Pagamento == ult.op = "pagar_fatura"

\* the invoices of id id_fatura in manager g, as indices
IndicesDaFatura(g, id_fatura) ==
    {k \in DOMAIN g.faturas : g.faturas[k].id_fatura = id_fatura}

\* the accounts of id id_conta in manager g, as indices
IndicesDaConta(g, id_conta) ==
    {i \in DOMAIN g.contas : g.contas[i].id_conta = id_conta}

\* before the call, one of the conditions under which pagar_fatura must
\* refuse held: no such invoice, invoice already Paga, no such account,
\* account not a checking account, or saldo + limite_cheque_especial below
\* the invoice total
PagamentoRecusavel ==
    \/ IndicesDaFatura(ante, ult.args.id_fatura) = {}
    \/ \E k \in IndicesDaFatura(ante, ult.args.id_fatura) : ante.faturas[k].status = "Paga"
    \/ IndicesDaConta(ante, ult.args.id_conta_pagamento) = {}
    \/ \E i \in IndicesDaConta(ante, ult.args.id_conta_pagamento) :
           \/ ~EhCorrente(ante.contas[i])
           \/ \E k \in IndicesDaFatura(ante, ult.args.id_fatura) :
                  ante.contas[i].saldo + ante.contas[i].limite_cheque_especial
                      < ante.faturas[k].valor_total

\* C13: pagar_fatura returns false and changes no balance, invoice status
\* or ledger entry when the invoice does not exist or is already Paga, the
\* paying account is missing or is not a checking account, or saldo +
\* limite_cheque_especial is below the invoice total; so an invoice is
\* debited only while it is Fechada, and two payments in a row of the same
\* invoice never both succeed.
C13_PagamentoRecusado ==
    Pagamento =>
        /\ PagamentoRecusavel => ~ult.ok /\ G = ante
        /\ ult.ok =>
               \A k \in IndicesDaFatura(ante, ult.args.id_fatura) :
                   ante.faturas[k].status = "Fechada"
        /\ (ult2.op = "pagar_fatura" /\ ult2.args.id_fatura = ult.args.id_fatura) =>
               ~(ult.ok /\ ult2.ok)

\* C13 witness: a Fechada invoice is presented to a checking account whose
\* saldo + limite_cheque_especial is below its total, after another
\* invoice was paid from that account.
C13_Witness ==
    /\ Pagamento
    /\ ~ult.ok
    /\ \E k \in IndicesDaFatura(G, ult.args.id_fatura) :
           /\ faturas[k].status = "Fechada"
           /\ \E i \in IndicesDaConta(G, ult.args.id_conta_pagamento) :
                  /\ EhCorrente(contas[i])
                  /\ contas[i].saldo + contas[i].limite_cheque_especial < faturas[k].valor_total
    /\ \E k \in DOMAIN faturas : faturas[k].status = "Paga"

\* the charges linked to invoice id_fatura in manager g, as indices
ComprasDaFatura(g, id_fatura) ==
    {j \in DOMAIN g.compras_cartao : g.compras_cartao[j].id_fatura = id_fatura}

\* C14: a successful pagar_fatura lowers the paying checking account's
\* saldo by exactly the invoice's valor_total, sets the invoice to Paga and
\* leaves every other invoice and every charge as it was (so the linked
\* charges are those of a Paga invoice), appends exactly one Despesa of that
\* amount on that account, and changes no other account.
C14_PagamentoDebitaUmaVez ==
    (Pagamento /\ ult.ok) =>
        /\ Len(contas) = Len(ante.contas)
        /\ Len(faturas) = Len(ante.faturas)
        /\ compras_cartao = ante.compras_cartao
        /\ cartoes_credito = ante.cartoes_credito
        /\ \E k \in DOMAIN ante.faturas :
               /\ ante.faturas[k].id_fatura = ult.args.id_fatura
               /\ faturas[k] = [ante.faturas[k] EXCEPT !.status = "Paga"]
               /\ \A x \in DOMAIN faturas : x # k => faturas[x] = ante.faturas[x]
               /\ \E i \in DOMAIN ante.contas :
                      /\ ante.contas[i].id_conta = ult.args.id_conta_pagamento
                      /\ EhCorrente(ante.contas[i])
                      /\ contas[i] = [ante.contas[i] EXCEPT
                                         !.saldo = @ - ante.faturas[k].valor_total]
                      /\ \A x \in DOMAIN contas : x # i => contas[x] = ante.contas[x]
               /\ Len(transacoes) = Len(ante.transacoes) + 1
               /\ SubSeq(transacoes, 1, Len(ante.transacoes)) = ante.transacoes
               /\ LET t == transacoes[Len(transacoes)]
                  IN  /\ t.tipo = "Despesa"
                      /\ t.valor = ante.faturas[k].valor_total
                      /\ t.id_conta = ult.args.id_conta_pagamento

\* C14 witness: an invoice gathering two charges is paid.
C14_Witness ==
    /\ Pagamento
    /\ ult.ok
    /\ Cardinality(ComprasDaFatura(G, ult.args.id_fatura)) = 2
    /\ \E k \in IndicesDaFatura(G, ult.args.id_fatura) :
           faturas[k].status = "Paga" /\ faturas[k].valor_total = 90

-----------------------------------------------------------------------------
(* Reopening an invoice *)

\* the last call was reabrir_fatura
Reabertura == ult.op = "reabrir_fatura"

\* C15: reabrir_fatura returns true for every invoice that exists, Fechada
\* or Paga; afterwards the invoice is gone, the other invoices are as they
\* were, and every charge that was linked to it has id_fatura = None while
\* the other charges keep theirs. For an id no invoice has it returns false
\* and changes nothing.
C15_ReabrirDesfazAFatura ==
    Reabertura =>
        IF IndicesDaFatura(ante, ult.args.id_fatura) = {}
        THEN ~ult.ok /\ G = ante
        ELSE /\ ult.ok
             /\ IndicesDaFatura(G, ult.args.id_fatura) = {}
             /\ Len(faturas) = Len(ante.faturas) - 1
             /\ \A k \in DOMAIN ante.faturas :
                    ante.faturas[k].id_fatura # ult.args.id_fatura =>
                        \E x \in DOMAIN faturas : faturas[x] = ante.faturas[k]
             /\ Len(compras_cartao) = Len(ante.compras_cartao)
             /\ \A j \in DOMAIN ante.compras_cartao :
                    compras_cartao[j] =
                        IF j \in ComprasDaFatura(ante, ult.args.id_fatura)
                        THEN [ante.compras_cartao[j] EXCEPT !.id_fatura = None]
                        ELSE ante.compras_cartao[j]

\* C15 witness: a Paga invoice with a linked charge is reopened while
\* another invoice, with its own charge, stays closed.
C15_Witness ==
    /\ Reabertura
    /\ ult.ok
    /\ \E k \in IndicesDaFatura(ante, ult.args.id_fatura) : ante.faturas[k].status = "Paga"
    /\ ComprasDaFatura(ante, ult.args.id_fatura) # {}
    /\ \E x \in DOMAIN faturas : ComprasDaFatura(G, faturas[x].id_fatura) # {}

-----------------------------------------------------------------------------
(* The life of a charge *)

\* the state of charge c in manager g: Open with no invoice, else Paid or
\* Closed after the status of the invoice its id_fatura names
Estado(g, c) ==
    IF c.id_fatura = None THEN "Open"
    ELSE IF \E k \in IndicesDaFatura(g, c.id_fatura) : g.faturas[k].status = "Paga"
    THEN "Paid"
    ELSE "Closed"

\* the charge of id id_compra in manager g (there is one)
CompraDe(g, id_compra) ==
    g.compras_cartao[CHOOSE j \in DOMAIN g.compras_cartao :
                         g.compras_cartao[j].id_compra = id_compra]

IdsCompras(g) == {g.compras_cartao[j].id_compra : j \in DOMAIN g.compras_cartao}

\* what one call may do to a charge that was c before it and is d after it
PassoDaCompra(antes, c, depois, d, op) ==
    \/ Estado(antes, c) = Estado(depois, d) /\ c.id_fatura = d.id_fatura
    \/ /\ Estado(antes, c) = "Open" /\ Estado(depois, d) = "Closed"
       /\ op = "fechar_fatura"
    \/ /\ Estado(antes, c) = "Closed" /\ Estado(depois, d) = "Paid"
       /\ c.id_fatura = d.id_fatura
       /\ op = "pagar_fatura"
    \/ /\ Estado(antes, c) \in {"Closed", "Paid"} /\ Estado(depois, d) = "Open"
       /\ op = "reabrir_fatura"

\* every charge present before and after a step takes a permitted step, and
\* a charge that appears is Open
PassoDasCompras ==
    /\ \A id \in IdsCompras(G) \cap IdsCompras(G') :
           PassoDaCompra(G, CompraDe(G, id), G', CompraDe(G', id), ult'.op)
    /\ \A id \in IdsCompras(G') \ IdsCompras(G) :
           Estado(G', CompraDe(G', id)) = "Open"

\* C16: over any sequence of card operations a charge changes state only
\* Open -> Closed by fechar_fatura, Closed -> Paid by pagar_fatura, and
\* Closed -> Open or Paid -> Open by reabrir_fatura; so it is never Paid
\* without having been Closed, and it never goes from one invoice to
\* another without being Open in between.
C16_VidaDaCompra == [][PassoDasCompras]_vars

\* C16 witness: a charge that was Closed was paid and then reopened, and is
\* Open again.
C16_Witness ==
    /\ Reabertura /\ ult.ok
    /\ ult2.op = "pagar_fatura" /\ ult2.ok
    /\ ult2.args.id_fatura = ult.args.id_fatura
    /\ \E id \in IdsCompras(G) \cap IdsCompras(ante2) :
           /\ Estado(ante2, CompraDe(ante2, id)) = "Closed"
           /\ Estado(ante, CompraDe(ante, id)) = "Paid"
           /\ Estado(G, CompraDe(G, id)) = "Open"

-----------------------------------------------------------------------------
(* Holdings *)

\* the holdings of (ticker, tipo_ativo) in account id_conta of manager g
Posicoes(g, id_conta, ticker, tipo_ativo) ==
    LET conta == ContaDe(g, id_conta)
    IN  {conta.ativos[x] : x \in
            {y \in DOMAIN conta.ativos :
                /\ conta.ativos[y].ticker = ticker
                /\ conta.ativos[y].tipo_ativo = tipo_ativo}}

\* the last two calls were successful purchases of the same ticker and asset
\* class on the same account, which held none of it before the first
DuasCompras ==
    /\ ult2.op = "comprar_ativo" /\ ult2.ok
    /\ ult.op = "comprar_ativo" /\ ult.ok
    /\ ult2.args.id_conta = ult.args.id_conta
    /\ Upper(ult2.args.ticker) = Upper(ult.args.ticker)
    /\ ult2.args.tipo_ativo = ult.args.tipo_ativo
    /\ Posicoes(ante2, ult.args.id_conta, Upper(ult.args.ticker), ult.args.tipo_ativo) = {}

\* C17: two successful comprar_ativo calls, q1 units at p1 and then q2 at
\* p2, of the same (ticker, tipo_ativo) on an account that held none of it
\* leave one holding of it, with quantity q1 + q2 and preco_medio
\* (q1*p1 + q2*p2) / (q1 + q2).
C17_PrecoMedioDeDuasCompras ==
    DuasCompras =>
        LET q1 == ult2.args.quantidade
            p1 == ult2.args.preco_unitario
            q2 == ult.args.quantidade
            p2 == ult.args.preco_unitario
            conta == ContaDe(G, ult.args.id_conta)
            indices == {y \in DOMAIN conta.ativos :
                           /\ conta.ativos[y].ticker = Upper(ult.args.ticker)
                           /\ conta.ativos[y].tipo_ativo = ult.args.tipo_ativo}
        IN  /\ Cardinality(indices) = 1
            /\ \A y \in indices :
                   /\ conta.ativos[y].quantidade = RInt(q1 + q2)
                   /\ conta.ativos[y].preco_medio = Rat(q1 * p1 + q2 * p2, q1 + q2)

\* C17 witness: 20 units at 10 and then 10 units at 20 of a class the account
\* did not hold, next to a holding of the same ticker in the other class:
\* 30 units at 40/3.
C17_Witness ==
    /\ DuasCompras
    /\ ult2.args.quantidade = 20 /\ ult2.args.preco_unitario = 10
    /\ ult.args.quantidade = 10 /\ ult.args.preco_unitario = 20
    /\ Len(ContaDe(G, ult.args.id_conta).ativos) = 2
    /\ \E a \in Posicoes(G, ult.args.id_conta, "PETR4", ult.args.tipo_ativo) :
           a.quantidade = RInt(30) /\ a.preco_medio = Rat(40, 3)

\* the last call was a vender_ativo that returned True
Venda == ult.op = "vender_ativo" /\ ult.ok

\* the position in the account's list, before the sale, of the holding the
\* sale drew from: the first one of the ticker
IndiceVendido ==
    LET ativos == ContaDe(ante, ult.args.id_conta).ativos
        doTicker == {y \in DOMAIN ativos : ativos[y].ticker = ult.args.ticker}
    IN  CHOOSE y \in doTicker : \A z \in doTicker : y <= z

\* the realized profit (or, negative, loss) of the sale: q * (s - c)
Realizado ==
    LET c == ContaDe(ante, ult.args.id_conta).ativos[IndiceVendido].preco_medio
    IN  RMul(RInt(ult.args.quantidade), RSub(RInt(ult.args.preco_venda), c))

\* the description shows, under the label of its sign, the whole number of
\* centavos nearest to the absolute value of x
Mostra(descricao, x) ==
    /\ Len(descricao) = 6
    /\ descricao[5] = IF RLe(RZero, x) THEN "Lucro:" ELSE "Prejuizo:"
    /\ \E v \in 0..(Abs(x.n) \div x.d + 1) :
           /\ descricao[6] = ToString(v)
           /\ 2 * Abs(v * x.d - Abs(x.n)) <= x.d

\* C18: a successful vender_ativo of q units at price s out of a holding of
\* Q units at average cost c credits saldo_caixa by exactly q*s, appends
\* exactly one Receita of q*s on the account, reports the realized result
\* q*(s - c), leaves the holding with Q - q units at the same average cost
\* when q < Q, and removes it when q = Q.
C18_VendaRealizada ==
    Venda =>
        LET q == ult.args.quantidade
            s == ult.args.preco_venda
            antes == ContaDe(ante, ult.args.id_conta)
            depois == ContaDe(G, ult.args.id_conta)
            vendido == antes.ativos[IndiceVendido]
        IN  /\ RLt(RZero, RInt(q)) /\ RLe(RInt(q), vendido.quantidade)
            /\ depois.saldo_caixa = antes.saldo_caixa + q * s
            /\ Len(transacoes) = Len(ante.transacoes) + 1
            /\ SubSeq(transacoes, 1, Len(ante.transacoes)) = ante.transacoes
            /\ LET t == transacoes[Len(transacoes)]
               IN  /\ t.tipo = "Receita"
                   /\ t.valor = q * s
                   /\ t.id_conta = ult.args.id_conta
                   /\ Mostra(t.descricao, Realizado)
            /\ IF RLt(RInt(q), vendido.quantidade)
               THEN /\ Len(depois.ativos) = Len(antes.ativos)
                    /\ depois.ativos[IndiceVendido] =
                           [vendido EXCEPT !.quantidade = RSub(@, RInt(q))]
               ELSE Posicoes(G, ult.args.id_conta, vendido.ticker, vendido.tipo_ativo) = {}

\* C18 witness: 5 units are sold at 18 out of 30 held at 40/3; the entry
\* shows a profit of 23 (23.33 rounded), and 25 units stay at 40/3.
C18_Witness ==
    /\ Venda
    /\ ult.args.quantidade = 5
    /\ ContaDe(ante, ult.args.id_conta).ativos[IndiceVendido].preco_medio = Rat(40, 3)
    /\ transacoes[Len(transacoes)].descricao[6] = "23"
    /\ \E a \in Posicoes(G, ult.args.id_conta, "PETR4", "Acao") :
           a.quantidade = RInt(25) /\ a.preco_medio = Rat(40, 3)

\* the last call was vender_ativo
ChamadaDeVenda == ult.op = "vender_ativo"

\* before the call, one of the conditions under which vender_ativo must
\* refuse held: no such account, account not an investment account, no
\* holding of the ticker, or fewer units held than asked for
VendaRecusavel ==
    \/ IndicesDaConta(ante, ult.args.id_conta) = {}
    \/ \E i \in IndicesDaConta(ante, ult.args.id_conta) :
           \/ ~EhInvestimento(ante.contas[i])
           \/ \A y \in DOMAIN ante.contas[i].ativos :
                  ante.contas[i].ativos[y].ticker # ult.args.ticker
           \/ RLt(ante.contas[i].ativos[IndiceVendido].quantidade,
                  RInt(ult.args.quantidade))

\* C19: vender_ativo returns False, and changes no holding, cash balance or
\* entry, when the account is missing or is not an investment account, the
\* account has no holding of the ticker, or the quantity asked for exceeds
\* the quantity held.
C19_VendaRecusada ==
    (ChamadaDeVenda /\ VendaRecusavel) => ~ult.ok /\ ~ult.exc /\ G = ante

\* C19 witness: 30 units are asked of an account that holds fewer, with a
\* sale date that strptime would reject had the call got that far.
C19_Witness ==
    /\ ChamadaDeVenda
    /\ ~ult.ok
    /\ ult.args.quantidade = 30
    /\ ult.args.data_venda = "01/12/2025"
    /\ \E a \in Posicoes(G, ult.args.id_conta, "PETR4", "Acao") :
           RLt(a.quantidade, RInt(30))

\* the last call acted on holdings
MexeEmAtivos == ult.op \in {"comprar_ativo", "vender_ativo", "remover_transacao"}

\* the (ticker, tipo_ativo) pairs the last call acted on: the pair bought,
\* the pair of the holding sold from, the pair of the purchase whose entry was
\* removed; every pair when the purchase behind a removed entry is not on
\* record
ParesAtingidos ==
    LET todos == {<<a.ticker, a.tipo_ativo>> :
                     a \in UNION {Range(ante.contas[i].ativos) :
                                     i \in {x \in DOMAIN ante.contas :
                                                EhInvestimento(ante.contas[x])}}}
    IN  CASE ult.op = "comprar_ativo" ->
                 {<<Upper(ult.args.ticker), ult.args.tipo_ativo>>}
          [] ult.op = "vender_ativo" ->
                 IF VendaRecusavel THEN {}
                 ELSE LET a == ContaDe(ante, ult.args.id_conta).ativos[IndiceVendido]
                      IN  {<<a.ticker, a.tipo_ativo>>}
          [] ult.op = "remover_transacao" ->
                 IF ult.args.id_transacao \in DOMAIN det_compra
                 THEN LET compra == det_compra[ult.args.id_transacao]
                      IN  {<<Upper(compra.ticker), compra.tipo_ativo>>}
                 ELSE IF \E k \in DOMAIN ante.transacoes :
                            /\ ante.transacoes[k].id_transacao = ult.args.id_transacao
                            /\ ante.transacoes[k].categoria = "Investimentos"
                      THEN todos
                      ELSE {}

\* C20: holdings are keyed by the pair (ticker, tipo_ativo): comprar_ativo,
\* vender_ativo and remover_transacao acting on one pair leave every holding
\* of another pair, the same ticker in another asset class included, in
\* place with its quantity and average cost.
C20_OutroParIntacto ==
    MexeEmAtivos =>
        \A i \in DOMAIN ante.contas :
            EhInvestimento(ante.contas[i]) =>
                \A a \in Range(ante.contas[i].ativos) :
                    <<a.ticker, a.tipo_ativo>> \notin ParesAtingidos =>
                        a \in Range(ContaDe(G, ante.contas[i].id_conta).ativos)

\* the last call was comprar_ativo, vender_ativo or remover_transacao, or
\* nothing was called yet
SoAtivos == ult.op \in {"inicio", "comprar_ativo", "vender_ativo", "remover_transacao"}

\* C21: in every state that comprar_ativo, vender_ativo and
\* remover_transacao lead to, every holding in an investment account's
\* ativos has quantidade > 0 and no two holdings of an account share
\* (ticker, tipo_ativo).
C21_PosicoesPositivas ==
    SoAtivos =>
        \A i \in DOMAIN contas :
            EhInvestimento(contas[i]) =>
                /\ \A y \in DOMAIN contas[i].ativos :
                       RLt(RZero, contas[i].ativos[y].quantidade)
                /\ \A y, z \in DOMAIN contas[i].ativos :
                       (/\ contas[i].ativos[y].ticker = contas[i].ativos[z].ticker
                        /\ contas[i].ativos[y].tipo_ativo = contas[i].ativos[z].tipo_ativo)
                           => y = z

-----------------------------------------------------------------------------
(* Entries and transfers *)

\* the last call was registrar_transacao
Lancamento == ult.op = "registrar_transacao"

\* what account conta can spend: saldo + limite_cheque_especial of a
\* checking account, saldo_caixa of an investment account
Disponivel(conta) ==
    IF EhCorrente(conta) THEN conta.saldo + conta.limite_cheque_especial
    ELSE conta.saldo_caixa

\* the last call asked for a Despesa above what the account could spend
DespesaSemCobertura ==
    /\ Lancamento
    /\ ult.args.tipo = "Despesa"
    /\ \E i \in IndicesDaConta(ante, ult.args.id_conta) :
           Disponivel(ante.contas[i]) < ult.args.valor

\* C22: registrar_transacao of a Despesa the account cannot cover returns
\* false with the balance and the entry list unchanged; a call that
\* succeeds changes the balance of its account by the amount and appends
\* exactly one entry, and a call that fails does neither.
C22_LancamentoAtomico ==
    Lancamento =>
        /\ DespesaSemCobertura => ~ult.ok
        /\ ~ult.ok => G = ante
        /\ ult.ok =>
               /\ Len(transacoes) = Len(ante.transacoes) + 1
               /\ SubSeq(transacoes, 1, Len(ante.transacoes)) = ante.transacoes
               /\ LET t == transacoes[Len(transacoes)]
                  IN  /\ t.id_conta = ult.args.id_conta
                      /\ t.valor = ult.args.valor
                      /\ t.tipo = ult.args.tipo
               /\ Len(contas) = Len(ante.contas)
               /\ \A i \in DOMAIN contas :
                      IF ante.contas[i].id_conta = ult.args.id_conta
                      THEN /\ SaldoDe(contas[i]) = SaldoDe(ante.contas[i]) +
                                  (IF ult.args.tipo = "Receita" THEN ult.args.valor
                                   ELSE 0 - ult.args.valor)
                           /\ contas[i].id_conta = ante.contas[i].id_conta
                      ELSE contas[i] = ante.contas[i]

\* C22 witness: a Despesa above saldo + limite_cheque_especial is refused
\* on a checking account that already carries an entry.
C22_Witness ==
    /\ DespesaSemCobertura
    /\ ~ult.ok
    /\ \E i \in IndicesDaConta(G, ult.args.id_conta) : EhCorrente(contas[i])
    /\ \E k \in DOMAIN transacoes : transacoes[k].id_conta = ult.args.id_conta

\* the last call was given an amount, a quantity or a price that is zero or
\* negative
EntradaNaoPositiva ==
    \/ ult.op = "registrar_transacao" /\ ult.args.valor <= 0
    \/ ult.op = "comprar_ativo" /\ (ult.args.quantidade <= 0 \/ ult.args.preco_unitario <= 0)
    \/ ult.op = "vender_ativo" /\ (ult.args.quantidade <= 0 \/ ult.args.preco_venda <= 0)
    \/ ult.op = "registrar_compra_cartao" /\ ult.args.valor_total <= 0

\* C23: registrar_transacao, comprar_ativo, vender_ativo and
\* registrar_compra_cartao given an amount, quantity or price that is not
\* positive return failure and leave balances, holdings, charges and
\* entries unchanged.
C23_EntradaNaoPositivaRecusada ==
    EntradaNaoPositiva =>
        /\ ~ult.ok
        /\ contas = ante.contas
        /\ transacoes = ante.transacoes
        /\ compras_cartao = ante.compras_cartao

-----------------------------------------------------------------------------
(* Ids that name nothing *)

IdsContas(g) == {g.contas[i].id_conta : i \in DOMAIN g.contas}
IdsCartoes(g) == {g.cartoes_credito[i].id_cartao : i \in DOMAIN g.cartoes_credito}
IdsDasFaturas(g) == {g.faturas[k].id_fatura : k \in DOMAIN g.faturas}
IdsDasTransacoes(g) == {g.transacoes[k].id_transacao : k \in DOMAIN g.transacoes}

\* the last call was given an account, card, invoice or entry id that named
\* nothing in the ledger
IdDesconhecidoNaChamada ==
    \/ /\ ult.op \in {"registrar_transacao", "comprar_ativo", "vender_ativo", "remover_conta"}
       /\ ult.args.id_conta \notin IdsContas(ante)
    \/ /\ ult.op = "realizar_transferencia"
       /\ \/ ult.args.id_origem \notin IdsContas(ante)
          \/ ult.args.id_destino \notin IdsContas(ante)
    \/ /\ ult.op = "remover_transacao"
       /\ ult.args.id_transacao \notin IdsDasTransacoes(ante)
    \/ /\ ult.op \in {"registrar_compra_cartao", "fechar_fatura", "remover_cartao_credito"}
       /\ ult.args.id_cartao \notin IdsCartoes(ante)
    \/ /\ ult.op = "pagar_fatura"
       /\ \/ ult.args.id_fatura \notin IdsDasFaturas(ante)
          \/ ult.args.id_conta_pagamento \notin IdsContas(ante)
    \/ /\ ult.op = "reabrir_fatura"
       /\ ult.args.id_fatura \notin IdsDasFaturas(ante)

\* C24: registrar_transacao, realizar_transferencia, comprar_ativo,
\* vender_ativo, remover_transacao, remover_conta, registrar_compra_cartao,
\* fechar_fatura, pagar_fatura, reabrir_fatura and remover_cartao_credito
\* called with an account, card, invoice or entry id that names nothing
\* signal failure and leave the whole ledger as it was.
C24_IdDesconhecidoRecusado ==
    IdDesconhecidoNaChamada => ~ult.ok /\ ~ult.exc /\ G = ante

\* C24 witness: an invoice that exists is presented for payment from an
\* account that was removed.
C24_Witness ==
    /\ ult.op = "pagar_fatura"
    /\ ult.args.id_fatura \in IdsDasFaturas(G)
    /\ ult.args.id_conta_pagamento = "c1"
    /\ "c1" \notin IdsContas(G)
    /\ ~ult.ok

-----------------------------------------------------------------------------
(* Transfers *)

\* the last call was realizar_transferencia
Transferencia == ult.op = "realizar_transferencia"

\* before the call, one of the conditions under which
\* realizar_transferencia must refuse held
TransferenciaRecusavel ==
    \/ ult.args.id_origem = ult.args.id_destino
    \/ ult.args.valor <= 0
    \/ ult.args.id_origem \notin IdsContas(ante)
    \/ ult.args.id_destino \notin IdsContas(ante)
    \/ \E i \in IndicesDaConta(ante, ult.args.id_origem) :
           Disponivel(ante.contas[i]) < ult.args.valor

\* C25: realizar_transferencia returns false and changes neither account
\* nor the entry list when origin and destination are the same, the amount
\* is not positive, either account is missing, or the origin cannot spend
\* the amount.
C25_TransferenciaRecusada ==
    (Transferencia /\ TransferenciaRecusavel) =>
        ~ult.ok /\ contas = ante.contas /\ transacoes = ante.transacoes

\* the sum of the cash balances of the accounts of manager g
SomaDosSaldos(g) == Soma([i \in DOMAIN g.contas |-> SaldoDe(g.contas[i])])

\* C26: a successful realizar_transferencia of v debits the origin by
\* exactly v, credits the destination by exactly v, leaves every other
\* account as it was, so that the sum of the cash balances is conserved,
\* and appends exactly two entries of v in the transfer category: a Despesa
\* on the origin and then a Receita on the destination.
C26_TransferenciaConserva ==
    (Transferencia /\ ult.ok) =>
        LET v == ult.args.valor
            n == Len(ante.transacoes)
        IN  /\ Len(contas) = Len(ante.contas)
            /\ \A i \in DOMAIN contas :
                   contas[i] =
                       IF ante.contas[i].id_conta = ult.args.id_origem
                       THEN IF EhCorrente(ante.contas[i])
                            THEN [ante.contas[i] EXCEPT !.saldo = @ - v]
                            ELSE [ante.contas[i] EXCEPT !.saldo_caixa = @ - v]
                       ELSE IF ante.contas[i].id_conta = ult.args.id_destino
                       THEN IF EhCorrente(ante.contas[i])
                            THEN [ante.contas[i] EXCEPT !.saldo = @ + v]
                            ELSE [ante.contas[i] EXCEPT !.saldo_caixa = @ + v]
                       ELSE ante.contas[i]
            /\ SomaDosSaldos(G) = SomaDosSaldos(ante)
            /\ Len(transacoes) = n + 2
            /\ SubSeq(transacoes, 1, n) = ante.transacoes
            /\ transacoes[n + 1].id_conta = ult.args.id_origem
            /\ transacoes[n + 1].tipo = "Despesa"
            /\ transacoes[n + 2].id_conta = ult.args.id_destino
            /\ transacoes[n + 2].tipo = "Receita"
            /\ \A k \in {n + 1, n + 2} :
                   transacoes[k].valor = v /\ transacoes[k].categoria = "Transferencia"

\* C26 witness: 300 goes from the investment account to a checking account
\* that was overdrawn, while a third account holds a balance of its own.
C26_Witness ==
    /\ Transferencia /\ ult.ok
    /\ ult.args.valor = 300
    /\ EhInvestimento(ContaDe(ante, ult.args.id_origem))
    /\ ContaDe(ante, ult.args.id_destino).saldo < 0
    /\ Len(contas) = 3

-----------------------------------------------------------------------------
(* Purchases of assets *)

\* the last call was a comprar_ativo
Compra == ult.op = "comprar_ativo"

\* before the call, one of the conditions under which comprar_ativo must
\* refuse held: no such account, account not an investment account, or less
\* cash than quantidade * preco_unitario
CompraRecusavel ==
    \/ IndicesDaConta(ante, ult.args.id_conta) = {}
    \/ \E i \in IndicesDaConta(ante, ult.args.id_conta) :
           \/ ~EhInvestimento(ante.contas[i])
           \/ ante.contas[i].saldo_caixa < ult.args.quantidade * ult.args.preco_unitario

\* the units of the pair bought by the last call that its account holds in
\* manager g: zero when it has no holding of the pair
QuantidadeDoPar(g) ==
    LET tidas == Posicoes(g, ult.args.id_conta, Upper(ult.args.ticker),
                          ult.args.tipo_ativo)
    IN  IF tidas = {} THEN RZero ELSE (CHOOSE a \in tidas : TRUE).quantidade

\* C27: comprar_ativo returns False and changes nothing when the account is
\* missing, is not a ContaInvestimento, or has saldo_caixa below
\* quantidade * preco_unitario; when it succeeds it debits saldo_caixa by
\* exactly quantidade * preco_unitario, increases the holding of the
\* (ticker, tipo_ativo) pair by quantidade, and appends exactly one Despesa
\* of that cost.
C27_CompraDebitaERegistra ==
    /\ (Compra /\ CompraRecusavel) => ~ult.ok /\ ~ult.exc /\ G = ante
    /\ (Compra /\ ult.ok) =>
           LET custo == ult.args.quantidade * ult.args.preco_unitario
               n == Len(ante.transacoes)
           IN  /\ ContaDe(G, ult.args.id_conta).saldo_caixa =
                      ContaDe(ante, ult.args.id_conta).saldo_caixa - custo
               /\ Cardinality(Posicoes(G, ult.args.id_conta, Upper(ult.args.ticker),
                                       ult.args.tipo_ativo)) = 1
               /\ Cardinality(Posicoes(ante, ult.args.id_conta, Upper(ult.args.ticker),
                                       ult.args.tipo_ativo)) <= 1
               /\ QuantidadeDoPar(G) = RAdd(QuantidadeDoPar(ante), RInt(ult.args.quantidade))
               /\ Len(transacoes) = n + 1
               /\ SubSeq(transacoes, 1, n) = ante.transacoes
               /\ transacoes[n + 1].id_conta = ult.args.id_conta
               /\ transacoes[n + 1].tipo = "Despesa"
               /\ transacoes[n + 1].valor = custo

-----------------------------------------------------------------------------
(* Removal of accounts *)

\* the last call was a remover_conta of an account that existed
RemocaoDeConta ==
    /\ ult.op = "remover_conta"
    /\ ult.args.id_conta \in IdsContas(ante)

\* C28: remover_conta(id) of an existing account removes that account and
\* every entry whose id_conta is id and leaves every other account and
\* entry as it was, in the same order; afterwards no entry refers to an
\* account that existed before the call and no longer exists.
C28_RemocaoDeContaEmCascata ==
    RemocaoDeConta =>
        /\ ult.ok /\ ~ult.exc
        /\ ult.args.id_conta \notin IdsContas(G)
        /\ \A k \in DOMAIN transacoes : transacoes[k].id_conta # ult.args.id_conta
        /\ contas = SelectSeq(ante.contas, LAMBDA c : c.id_conta # ult.args.id_conta)
        /\ transacoes = SelectSeq(ante.transacoes,
                                  LAMBDA t : t.id_conta # ult.args.id_conta)
        /\ \A k \in DOMAIN transacoes :
               transacoes[k].id_conta \in IdsContas(ante) =>
                   transacoes[k].id_conta \in IdsContas(G)
        /\ cartoes_credito = ante.cartoes_credito
        /\ compras_cartao = ante.compras_cartao
        /\ faturas = ante.faturas

\* C28 witness: the account removed had received a transfer, whose other
\* entry stays on an account that remains, next to a third account.
C28_Witness ==
    /\ RemocaoDeConta /\ ult.ok
    /\ Len(contas) = 2
    /\ \E k \in DOMAIN ante.transacoes :
           /\ ante.transacoes[k].id_conta = ult.args.id_conta
           /\ ante.transacoes[k].categoria = "Transferencia"
    /\ \E k \in DOMAIN transacoes : transacoes[k].categoria = "Transferencia"
    /\ Len(transacoes) < Len(ante.transacoes)

-----------------------------------------------------------------------------
(* Saving and loading *)

\* the last two calls were salvar_dados and then the start of a new
\* GerenciadorContas on the file it wrote
SalvoECarregado == ult2.op = "salvar_dados" /\ ult.op = "carregar_dados"

\* C29: salvar_dados followed by carregar_dados into a new GerenciadorContas
\* gives back the accounts (subtype and balances), their holdings, the
\* entries, the cards with their fechamentos_customizados, the charges with
\* their id_fatura and id_compra_original, and the invoices with their
\* status, each list equal to the list that was saved.
C29_LedgerSalvoECarregado ==
    SalvoECarregado =>
        /\ contas = ante2.contas
        /\ transacoes = ante2.transacoes
        /\ cartoes_credito = ante2.cartoes_credito
        /\ compras_cartao = ante2.compras_cartao
        /\ faturas = ante2.faturas

\* C29 witness: what was saved and loaded has a holding whose average price
\* is not a whole number, entries, a card with a customised closing day,
\* instalments in and out of an invoice, and an invoice that is Paga.
C29_Witness ==
    /\ SalvoECarregado
    /\ \E i \in DOMAIN contas :
           /\ EhInvestimento(contas[i])
           /\ \E x \in DOMAIN contas[i].ativos : contas[i].ativos[x].preco_medio.d # 1
    /\ transacoes # <<>>
    /\ \E i \in DOMAIN cartoes_credito :
           DOMAIN cartoes_credito[i].fechamentos_customizados # {}
    /\ \E k \in DOMAIN compras_cartao : compras_cartao[k].id_fatura = None
    /\ \E k \in DOMAIN compras_cartao :
           /\ compras_cartao[k].id_fatura # None
           /\ compras_cartao[k].id_compra_original # compras_cartao[k].id_compra
    /\ \E k \in DOMAIN faturas : faturas[k].status = "Paga"

\* C30: salvar_dados followed by carregar_dados into a new GerenciadorContas
\* gives back the list of categories and the list of tags that were saved,
\* also when every category had been removed with remover_categoria.
C30_CategoriasETagsSalvas ==
    SalvoECarregado => categorias = ante2.categorias /\ tags = ante2.tags

-----------------------------------------------------------------------------
(* Valuation *)

\* the last call was a valuation of an investment account
Avaliacao ==
    /\ ult.op = "calcular_posicao_conta_investimento"
    /\ ult.args.conta_id \in IdsContas(G)
    /\ EhInvestimento(ContaDe(G, ult.args.conta_id))

\* a null price in the answer
PrecoNulo == [n |-> 0, d |-> 0]

\* the items of the answer whose price lookup went through
ItensCotados ==
    SelectSeq(ult.ret.ativos, LAMBDA item : ult.args.cotacoes[item.ticker].ok)

\* C31: calcular_posicao_conta_investimento does not fail when a price lookup
\* fails; a holding whose lookup failed is reported with a null current
\* price and adds nothing to total_valor_atual_ativos, which is the sum over
\* the holdings that were quoted; patrimonio_atualizado is saldo_caixa plus
\* total_valor_atual_ativos.
C31_AvaliacaoSemCotacao ==
    Avaliacao =>
        /\ ~ult.exc
        /\ Len(ult.ret.ativos) = Len(ContaDe(G, ult.args.conta_id).ativos)
        /\ \A k \in DOMAIN ult.ret.ativos :
               ~ult.args.cotacoes[ult.ret.ativos[k].ticker].ok =>
                   ult.ret.ativos[k].preco_atual = PrecoNulo
        /\ ult.ret.total_valor_atual_ativos = SomaValorAtual(ItensCotados)
        /\ ult.ret.patrimonio_atualizado =
               RAdd(ult.ret.saldo_caixa, ult.ret.total_valor_atual_ativos)

-----------------------------------------------------------------------------
(* Amounts of installments *)

\* the charges the last call appended
ComprasNovas ==
    SubSeq(compras_cartao, Len(ante.compras_cartao) + 1, Len(compras_cartao))

\* the sum of the amounts of the charges the last call appended
SomaDasNovas == Soma([k \in DOMAIN ComprasNovas |-> ComprasNovas[k].valor])

\* C32: registrar_compra_cartao gives every installment of a purchase the
\* same amount, valor_total / num_parcelas rounded to the centavo, so that
\* the sum of the installments is num_parcelas times that amount and differs
\* from valor_total by at most num_parcelas / 2 centavos; no installment
\* carries the difference.
C32_ParcelasIguais ==
    CompraRegistrada =>
        LET n == ult.args.num_parcelas
            v == ComprasNovas[1].valor
        IN  /\ Len(ComprasNovas) = n
            /\ \A k \in DOMAIN ComprasNovas : ComprasNovas[k].valor = v
            /\ 2 * Abs(n * v - ult.args.valor_total) <= n
            /\ SomaDasNovas = n * v
            /\ 2 * Abs(SomaDasNovas - ult.args.valor_total) <= n

\* C32 witness: one real in three installments of 33 centavos, which add up
\* to 99.
C32_Witness ==
    /\ CompraRegistrada
    /\ ult.args.valor_total = 100
    /\ ult.args.num_parcelas = 3
    /\ SomaDasNovas = 99

\* C33: every charge created by registrar_compra_cartao with valor_total > 0
\* and num_parcelas >= 1 has valor > 0, also when valor_total is less than
\* half a centavo per installment, and so every invoice of fechar_fatura has
\* valor_total > 0.
C33_ValoresPositivos ==
    /\ \A k \in DOMAIN compras_cartao : compras_cartao[k].valor > 0
    /\ \A k \in DOMAIN faturas : faturas[k].valor_total > 0

-----------------------------------------------------------------------------
(* Invoices and the charges linked to them *)

\* the sum of the amounts of the charges of manager g linked to id_fatura
SomaDasVinculadas(g, id_fatura) ==
    Soma([j \in DOMAIN g.compras_cartao |->
             IF g.compras_cartao[j].id_fatura = id_fatura
             THEN g.compras_cartao[j].valor ELSE 0])

\* C34: in every reachable state the valor_total of each invoice is the sum
\* of the amounts of the charges now linked to it; no operation but
\* reabrir_fatura, remover_compra_cartao included, changes the charges of a
\* closed invoice.
C34_TotalDaFatura ==
    \A k \in DOMAIN faturas :
        faturas[k].valor_total = SomaDasVinculadas(G, faturas[k].id_fatura)

-----------------------------------------------------------------------------
(* Sales as one step *)

\* C36: vender_ativo is all or nothing: a call either reduces the holding,
\* credits saldo_caixa and appends one Receita, or changes none of the
\* three, also when data_venda is not a "YYYY-MM-DD" string.
C36_VendaInteira ==
    ChamadaDeVenda =>
        \/ contas = ante.contas /\ transacoes = ante.transacoes
        \/ /\ contas # ante.contas
           /\ Len(transacoes) = Len(ante.transacoes) + 1
           /\ SubSeq(transacoes, 1, Len(ante.transacoes)) = ante.transacoes
           /\ transacoes[Len(transacoes)].tipo = "Receita"

-----------------------------------------------------------------------------
(* Dates of installments *)

\* the calendar month of a date, counted from year 0
MesCorrido(data) == data.ano * 12 + data.mes

\* C37: on every card, with any closing and due day and any custom closing
\* days, and for every purchase date, the installments of one purchase fall
\* in distinct, consecutive monthly cycles: installment i + 1 is dated one
\* calendar month after installment i.
C37_CiclosConsecutivos ==
    CompraRegistrada =>
        \A k \in 1..(Len(ComprasNovas) - 1) :
            MesCorrido(ComprasNovas[k + 1].data_compra) =
                MesCorrido(ComprasNovas[k].data_compra) + 1

\* date a is before date b
DataAntes(a, b) ==
    \/ a.ano < b.ano
    \/ a.ano = b.ano /\ a.mes < b.mes
    \/ a.ano = b.ano /\ a.mes = b.mes /\ a.dia < b.dia

\* C38: every charge registrar_compra_cartao creates is due (data_compra) on
\* or after the day of the purchase itself (data_compra_real).
C38_VencimentoAposCompra ==
    CompraRegistrada =>
        \A k \in DOMAIN ComprasNovas :
            ~DataAntes(ComprasNovas[k].data_compra, ComprasNovas[k].data_compra_real)

-----------------------------------------------------------------------------
(* Closed cycles *)

\* the invoice the last call, a reabrir_fatura, removed
FaturaReaberta ==
    ante.faturas[CHOOSE k \in DOMAIN ante.faturas :
                     ante.faturas[k].id_fatura = ult.args.id_fatura]

\* C39: after fechar_fatura creates an invoice for the charges of cycle
\* (y, m) of a card, ciclo_esta_fechado(card, y, m) is true, whatever closing
\* and due dates were passed; after reabrir_fatura of an invoice, with no
\* other invoice of the card for its cycle, it is false again.
C39_CicloFechado ==
    /\ (Fechamento /\ ult.ok) =>
           ciclo_esta_fechado(G, ult.args.id_cartao,
                              ult.args.data_fechamento_real.ano,
                              ult.args.data_fechamento_real.mes)
    /\ (Reabertura /\ ult.ok) =>
           LET f == FaturaReaberta
               OutraDoCiclo(x) == /\ x.id_cartao = f.id_cartao
                                  /\ x.data_fechamento.ano = f.data_fechamento.ano
                                  /\ x.data_fechamento.mes = f.data_fechamento.mes
           IN  (\A k \in DOMAIN faturas : ~OutraDoCiclo(faturas[k])) =>
                   ~ciclo_esta_fechado(G, f.id_cartao, f.data_fechamento.ano,
                                       f.data_fechamento.mes)

-----------------------------------------------------------------------------
(* References between charges, invoices and cards *)

\* C40: in every state reached by registrar_compra_cartao,
\* remover_compra_cartao, fechar_fatura, pagar_fatura, reabrir_fatura and
\* remover_cartao_credito, every charge with an id_fatura refers to an
\* existing invoice of its own card, and every charge and every invoice
\* refers to an existing card.
C40_ReferenciasValidas ==
    /\ \A j \in DOMAIN compras_cartao :
           LET c == compras_cartao[j]
           IN  /\ c.id_cartao \in IdsCartoes(G)
               /\ c.id_fatura # None =>
                      \E k \in IndicesDaFatura(G, c.id_fatura) :
                          faturas[k].id_cartao = c.id_cartao
    /\ \A k \in DOMAIN faturas : faturas[k].id_cartao \in IdsCartoes(G)

\* C40 witness: a card with a charge linked to its invoice was removed, and
\* the charge of the other card is still linked to that card's invoice.
C40_Witness ==
    /\ ult.op = "remover_cartao_credito" /\ ult.ok
    /\ \E j \in DOMAIN ante.compras_cartao :
           /\ ante.compras_cartao[j].id_cartao = ult.args.id_cartao
           /\ ante.compras_cartao[j].id_fatura # None
    /\ \E j \in DOMAIN compras_cartao : compras_cartao[j].id_fatura # None

-----------------------------------------------------------------------------
(* Two threads calling one manager.  GerenciadorContas holds no lock, so a
   thread may be switched out between any two statements of a method.  A
   debit of a checking account is taken in four steps: the lookups and the
   funds check; the read of conta.saldo; the write of conta.saldo; the rest
   of the method.  A call that fails its checks returns in its first step. *)

\* thread t enters op(args), a debit of valor on checking account id_conta,
\* whose checks give r when run on the state as it is now
IniciarDebito(t, op, args, id_conta, valor, r) ==
    /\ em_curso[t] = Ocioso
    /\ IF r.ok
       THEN /\ passos < MaxPassos
            /\ passos' = passos + 1
            /\ em_curso' = [em_curso EXCEPT ![t] =
                   [pc |-> "verificado", op |-> op, args |-> args,
                    id_conta |-> id_conta, valor |-> valor, lido |-> 0]]
            /\ UNCHANGED <<contas, transacoes, cartoes_credito, compras_cartao,
                           faturas, categorias, tags, arquivo, prox_id, ult, ante,
                           ult2, ante2, det_compra>>
       ELSE /\ Chamada(op, args, r)
            /\ UNCHANGED det_compra

IniciarTransacao(t, id_conta, descricao, valor, categoria) ==
    IniciarDebito(t, "registrar_transacao",
                  [id_conta |-> id_conta, descricao |-> descricao, valor |-> valor,
                   tipo |-> "Despesa", categoria |-> categoria],
                  id_conta, valor,
                  registrar_transacao(G, id_conta, descricao, valor, "Despesa", categoria))

IniciarTransferencia(t, id_origem, id_destino, valor) ==
    IniciarDebito(t, "realizar_transferencia",
                  [id_origem |-> id_origem, id_destino |-> id_destino, valor |-> valor],
                  id_origem, valor,
                  realizar_transferencia(G, id_origem, id_destino, valor))

IniciarPagamento(t, id_fatura, id_conta_pagamento) ==
    LET k == PrimeiroIndice([x \in DOMAIN faturas |-> faturas[x].id_fatura = id_fatura])
    IN  IniciarDebito(t, "pagar_fatura",
                      [id_fatura |-> id_fatura, id_conta_pagamento |-> id_conta_pagamento],
                      id_conta_pagamento,
                      IF k = 0 THEN 0 ELSE faturas[k].valor_total,
                      pagar_fatura(G, id_fatura, id_conta_pagamento))

\* conta.saldo -= valor, first half: the thread reads conta.saldo
LerSaldo(t) ==
    /\ em_curso[t].pc = "verificado"
    /\ em_curso' = [em_curso EXCEPT
                       ![t].pc = "lido",
                       ![t].lido = ContaDe(G, em_curso[t].id_conta).saldo]
    /\ UNCHANGED <<contas, transacoes, cartoes_credito, compras_cartao, faturas,
                   categorias, tags, arquivo, prox_id, ult, ante, ult2, ante2,
                   det_compra, passos>>

\* conta.saldo -= valor, second half: the thread writes what it read less valor
GravarSaldo(t) ==
    /\ em_curso[t].pc = "lido"
    /\ contas' = [contas EXCEPT ![buscar_conta_por_id(G, em_curso[t].id_conta)].saldo =
                     em_curso[t].lido - em_curso[t].valor]
    /\ em_curso' = [em_curso EXCEPT ![t].pc = "debitado"]
    /\ UNCHANGED <<transacoes, cartoes_credito, compras_cartao, faturas, categorias,
                   tags, arquivo, prox_id, ult, ante, ult2, ante2, det_compra, passos>>

\* thread t leaves its call, which returns True with ret
Retorna(t, ret) ==
    /\ ult' = [op |-> em_curso[t].op, args |-> em_curso[t].args, ok |-> TRUE,
               ret |-> ret, exc |-> FALSE]
    /\ ult2' = ult
    /\ ante' = G
    /\ ante2' = ante
    /\ em_curso' = [em_curso EXCEPT ![t] = Ocioso]
    /\ UNCHANGED <<cartoes_credito, compras_cartao, categorias, tags, arquivo,
                   det_compra, passos>>

\* the rest of registrar_transacao: the entry is appended
ConcluirTransacao(t) ==
    LET a == em_curso[t].args
        nova == Transacao(prox_id, a.id_conta, a.descricao, a.valor, a.tipo, a.categoria)
    IN  /\ em_curso[t].pc = "debitado"
        /\ em_curso[t].op = "registrar_transacao"
        /\ transacoes' = Append(transacoes, nova)
        /\ prox_id' = prox_id + 1
        /\ Retorna(t, <<nova.id_transacao>>)
        /\ UNCHANGED <<contas, faturas>>

\* the rest of realizar_transferencia: the destination is credited and the
\* two entries are appended
ConcluirTransferencia(t) ==
    LET a == em_curso[t].args
        id == buscar_conta_por_id(G, a.id_destino)
        conta_origem == ContaDe(G, a.id_origem)
        conta_destino == contas[id]
        creditada ==
            IF conta_destino.tipo = "ContaCorrente"
            THEN [conta_destino EXCEPT !.saldo = @ + a.valor]
            ELSE [conta_destino EXCEPT !.saldo_caixa = @ + a.valor]
        saida == Transacao(prox_id, a.id_origem,
                           <<"Transferencia", "para", conta_destino.nome>>,
                           a.valor, "Despesa", "Transferencia")
        entrada == Transacao(prox_id + 1, a.id_destino,
                             <<"Transferencia", "de", conta_origem.nome>>,
                             a.valor, "Receita", "Transferencia")
    IN  /\ em_curso[t].pc = "debitado"
        /\ em_curso[t].op = "realizar_transferencia"
        /\ contas' = [contas EXCEPT ![id] = creditada]
        /\ transacoes' = transacoes \o <<saida, entrada>>
        /\ prox_id' = prox_id + 2
        /\ Retorna(t, <<saida.id_transacao, entrada.id_transacao>>)
        /\ UNCHANGED faturas

\* the rest of pagar_fatura: the invoice is set to Paga and the entry appended
ConcluirPagamento(t) ==
    LET a == em_curso[t].args
        k == PrimeiroIndice([x \in DOMAIN faturas |-> faturas[x].id_fatura = a.id_fatura])
        fatura == faturas[k]
        nova == Transacao(prox_id, a.id_conta_pagamento, DescricaoPagamento(fatura),
                          em_curso[t].valor, "Despesa", "Cartao de Credito")
    IN  /\ em_curso[t].pc = "debitado"
        /\ em_curso[t].op = "pagar_fatura"
        /\ faturas' = [faturas EXCEPT ![k].status = "Paga"]
        /\ transacoes' = Append(transacoes, nova)
        /\ prox_id' = prox_id + 1
        /\ Retorna(t, <<nova.id_transacao>>)
        /\ UNCHANGED contas

-----------------------------------------------------------------------------
(* Specification SpecConcorrencia: two threads debit the checking account,
   which has 50 and a limit of 50, with a closed invoice of 60 to pay *)

ValoresDebitados == {60, 80}

InitConcorrencia == Comeca(ComFatura)

NextConcorrencia ==
    \/ \E t \in Threads, valor \in ValoresDebitados :
          IniciarTransacao(t, "c1", <<"Mercado">>, valor, "Alimentacao")
    \/ \E t \in Threads : IniciarTransferencia(t, "c1", "i1", 50)
    \/ \E t \in Threads, id_fatura \in IdsFaturas : IniciarPagamento(t, id_fatura, "c1")
    \/ \E t \in Threads : LerSaldo(t)
    \/ \E t \in Threads : GravarSaldo(t)
    \/ \E t \in Threads : ConcluirTransacao(t)
    \/ \E t \in Threads : ConcluirTransferencia(t)
    \/ \E t \in Threads : ConcluirPagamento(t)

SpecConcorrencia == InitConcorrencia /\ [][NextConcorrencia]_vars

-----------------------------------------------------------------------------
(* Debits by two threads *)

\* the threads that are inside a call
DentroDeChamada == {t \in Threads : em_curso[t] # Ocioso}

\* C35: the mutating operations of one GerenciadorContas exclude each other:
\* of two threads debiting one account (registrar_transacao of a Despesa,
\* realizar_transferencia, pagar_fatura) at most one is between its funds
\* check and the end of its call, so two debits that each pass the check
\* alone never take the account below its limit together.
C35_DebitosExclusivos ==
    /\ Cardinality(DentroDeChamada) <= 1
    /\ \A i \in DOMAIN contas :
           EhCorrente(contas[i]) =>
               contas[i].saldo + contas[i].limite_cheque_especial >= 0

====
